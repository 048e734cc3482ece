----------------------------- MODULE MCBrokerPeers -----------------------------
(* MCBrokerCalls with requests of the backend that use the id and the token *)
(* the calls use.                                                          *)
EXTENDS BrokerPeers, TLC

CONSTANTS s1, s2, r1, t1, c1, c2, a1, a2

MCSessions == {s1, s2}
MCRawIds == {r1}
MCTokens == {t1}
MCCalls == {c1, c2}
MCBackendIds == 1 .. 2
MCSessionOf == c1 :> s1 @@ c2 :> s2
MCIdOf == c1 :> r1 @@ c2 :> r1
MCTokenOf == c1 :> t1 @@ c2 :> t1
MCAsks == {a1, a2}
MCAskId == a1 :> r1 @@ a2 :> r1
MCAskToken == a1 :> t1 @@ a2 :> None

Cancel(s) == <<"cancel", <<s, r1>>>>
Drop(c) == <<"emit", <<c, "cancel">>>>
Control(command) == <<"control", command>>

\* What meets: cancellations, controls, requests of the backend, processes that
\* die, and clients that leave.
Meetings == {
    {Cancel(s1), Drop(c1), <<"exit", 1>>},
    {Drop(c1), Drop(c2)},
    {Cancel(s2), <<"emit", <<c2, "progress">>>>, <<"gone", s2>>},
    {Control("stop"), Control("restart")},
    {Control("force"), <<"leave", s1>>},
    {<<"ask", a1>>, <<"ask", a2>>},
    {<<"ask", a1>>, <<"exit", 1>>},
    {<<"ask", a1>>, Cancel(s1)}}

\* There is a request timeout.
PeersScripts == {meeting \cup {<<"deadline">>} : meeting \in Meetings}

CrossScripts == {{<<"ask", a1>>, Cancel(s1), <<"deadline">>}}
=============================================================================
