---------------------------- MODULE MCNormalRuntime ----------------------------
EXTENDS NormalRuntime

CONSTANTS t, u

Line(kind, method, tool, args, rawId, token) ==
    [kind |-> kind, method |-> method, tool |-> tool, args |-> args, id |-> rawId,
     token |-> token]

Tool(action) ==
    Line("request", "tools/call", WrapperTool,
         Argument(action, "absent", "object", "absent"), 9, None)
Plain(kind, method, rawId) == Line(kind, method, NoTool, NoArguments, rawId, None)

MCSays == [
    c1      |-> Line("request", "tools/call", "search", NoArguments, 1, t),
    c2      |-> Plain("request", "prompts/get", 2),
    cancel  |-> Plain("notification", "notifications/cancelled", 1),
    ready   |-> Plain("notification", "notifications/initialized", 9),
    roots   |-> Plain("notification", "notifications/roots/list_changed", 9),
    served  |-> Line("notification", "notifications/progress", NoTool, NoArguments, 9, u),
    answer  |-> Plain("response", "", 1),
    list    |-> Plain("request", "tools/list", 9),
    ping    |-> Plain("request", "ping", 9),
    bad     |-> Tool("backend.explode"),
    stop    |-> Tool("backend.stop"),
    restart |-> Tool("backend.restart"),
    force   |-> Line("request", LegacyControls.restart, NoTool,
                     Argument("absent", "absent", "object", "true"), 9, None),
    refresh |-> Plain("request", LegacyControls.refresh, 9)]
MCLines == DOMAIN MCSays

Says2(kind, method, about, rawId, token) ==
    [kind |-> kind, method |-> method, about |-> about, id |-> rawId, token |-> token]

MCEmitSays == [
    progress |-> Says2("notification", "notifications/progress", "c1", 9, None),
    drop     |-> Says2("notification", "notifications/cancelled", "c1", 9, None),
    tools    |-> Says2("notification", "notifications/tools/list_changed", None, 9, None),
    sampling |-> Says2("request", "sampling/createMessage", None, 1, u),
    stray    |-> Says2("response", "", None, 9, None)]
MCEmits == DOMAIN MCEmitSays

L(l) == <<"line", l>>
E(e) == <<"emit", e>>
Two == {L("c1"), L("c2")}

Deadline == <<"deadline">>

\* What meets: calls, cancellations, controls, an end, with a request timeout and
\* without.
MCScripts == {
    {L("c1"), L("cancel"), E("drop"), <<"eof">>, <<"reap">>, Deadline},
    {L("c1"), <<"eof">>, <<"reap">>},
    {L("c1"), L("stop"), <<"reap">>, Deadline},
    {L("c1"), L("restart"), <<"eof">>},
    {L("c1"), L("force"), <<"die">>, Deadline},
    Two \cup {<<"die">>},
    Two \cup {<<"eof">>, Deadline},
    {L("c1"), L("refresh"), E("progress"), L("ping"), <<"signal">>, Deadline},
    {L("c1"), E("tools"), L("ready"), L("bad"), <<"gone">>, <<"die">>, Deadline},
    {L("c1"), E("sampling"), L("answer"), L("served"), <<"die">>},
    {L("c1"), E("sampling"), L("cancel")},
    {L("c1"), E("stray"), L("roots"), L("list"), <<"eof">>}}

CutScripts == {{L("c1"), L("c2"), E("progress"), Deadline}}
================================================================================
