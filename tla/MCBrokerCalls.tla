----------------------------- MODULE MCBrokerCalls -----------------------------
(* One call in each of two sessions, under the same raw id and with the same *)
(* progress token: what one session does can reach the other only by the    *)
(* lock, the slot, the ids and the token they share.                         *)
EXTENDS BrokerCalls, TLC

CONSTANTS s1, s2, r1, t1, c1, c2

MCSessions == {s1, s2}
MCRawIds == {r1}
MCTokens == {t1}
MCCalls == {c1, c2}
MCBackendIds == 1 .. 2
MCSessionOf == c1 :> s1 @@ c2 :> s2
MCIdOf == c1 :> r1 @@ c2 :> r1
MCTokenOf == c1 :> t1 @@ c2 :> t1

Cancel(s) == <<"cancel", <<s, r1>>>>
Drop(c) == <<"emit", <<c, "cancel">>>>

Deadline == <<"deadline">>
Stalls(g) == {<<"jam", g>>, <<"drain", g>>}

\* Cancellations from both ends, processes that die, controls and progress, with a
\* request timeout and without; a process whose pipe is full from the start, and
\* one whose pipe fills up.
EndScripts == {
    {Drop(c1), <<"leave", s1>>, Deadline},
    {Drop(c1), <<"exit", 1>>},
    {Cancel(s1), Drop(c2), <<"leave", s1>>},
    {<<"gone", s1>>, <<"leave", s2>>, <<"exit", 1>>, Deadline},
    {<<"control", "restart">>},
    {<<"control", "stop">>, <<"leave", s1>>, Deadline},
    {<<"emit", <<c2, "progress">>>>, <<"leave", s2>>},
    {Cancel(s1), <<"leave", s1>>, <<"drain", 1>>},
    {Deadline, <<"leave", s2>>} \cup Stalls(1)}

CancelScripts == {{Cancel(s1), Cancel(s2)}}
StopScripts == {{<<"control", "stop">>}}
=============================================================================
