------------------------------- MODULE EventPlane -------------------------------
(***************************************************************************)
(* The event plane of src/src/event_plane.rs: the table of events the      *)
(* wrapper mounts programs on, the look-up in it, and what the two         *)
(* runtimes derive from a look-up - where a client request goes, which     *)
(* notifications are translated, dropped or refresh the cache.             *)
(*                                                                         *)
(* Methods and names are opaque here; a selector is the set of the methods *)
(* and the tool name it asks for.                                          *)
(***************************************************************************)
EXTENDS Naturals, Sequences

\* The controls behind the legacy prefix, by method.
LegacyControls == [status |-> "mcp-wrapper/backend/status",
                   refresh |-> "mcp-wrapper/backend/refresh",
                   restart |-> "mcp-wrapper/backend/restart",
                   stop |-> "mcp-wrapper/backend/stop",
                   ping |-> "mcp-wrapper/backend/ping"]

\* The methods that start with it: the controls, and one that stands for the rest.
LegacyMethods ==
    {LegacyControls[x] : x \in DOMAIN LegacyControls} \cup {"mcp-wrapper/backend/other"}

AnyTool == "any tool"
WrapperTool == "mcp.wrapper"

Mount(dir, kind, methods, tool, program, outcome) ==
    [dir |-> dir, kind |-> kind, methods |-> methods, tool |-> tool,
     program |-> program, outcome |-> outcome]

\* Entries that differ in their method only follow each other in the table and
\* are one entry here.
Requests(dir, methods, program, outcome) ==
    Mount(dir, "request", methods, AnyTool, program, outcome)
Notifications(dir, methods, program, outcome) ==
    Mount(dir, "notification", methods, AnyTool, program, outcome)

MountTable == <<
    Requests("c2s", {"initialize"}, "CacheInitializeView", "Respond"),
    Notifications("c2s", {"notifications/initialized"}, "DropClientInitialized", "Drop"),
    Requests("c2s", {"ping"}, "LocalPing", "Respond"),
    Requests("s2c", {"ping"}, "PeerRequestThenPass", "Pass"),
    Requests("c2s", {"tools/list"}, "CacheToolsList", "Respond"),
    Requests("c2s", {"prompts/list"}, "CachePromptsList", "Respond"),
    Requests("c2s", {"resources/list"}, "CacheResourcesList", "Respond"),
    Requests("c2s", {"resources/templates/list"}, "CacheResourceTemplatesList", "Respond"),
    Mount("c2s", "request", {"tools/call"}, WrapperTool, "InvokeWrapperTool", "Respond"),
    Requests("c2s", {"tools/call", "prompts/get", "resources/read", "resources/subscribe",
                     "resources/unsubscribe", "completion/complete", "logging/setLevel"},
             "ClientRequestThenPass", "Pass"),
    Requests("s2c", {"sampling/createMessage", "roots/list", "elicitation/create"},
             "PeerRequestThenPass", "Pass"),
    Notifications("c2s", {"notifications/cancelled"}, "CancelRequest", "Forward"),
    Notifications("s2c", {"notifications/cancelled"}, "CancelRequest", "Forward"),
    Notifications("c2s", {"notifications/progress"}, "ProgressRequest", "Forward"),
    Notifications("s2c", {"notifications/progress"}, "ProgressRequest", "Forward"),
    Notifications("s2c", {"notifications/tools/list_changed",
                          "notifications/prompts/list_changed",
                          "notifications/resources/list_changed"},
                  "RefreshCacheThenPass", "RefreshThenForward"),
    Notifications("s2c", {"notifications/resources/updated", "notifications/message"},
                  "PassNotification", "Pass"),
    Notifications("c2s", {"notifications/roots/list_changed"}, "PassNotification", "Pass"),
    Mount("c2s", "request", LegacyMethods, AnyTool, "LegacyBackendHook", "Respond") >>

\* The lists a list_changed notification invalidates (CacheRefreshTarget).
RefreshTargets(method) ==
    CASE method = "notifications/tools/list_changed" -> {"ToolsList"}
      [] method = "notifications/prompts/list_changed" -> {"PromptsList"}
      [] method = "notifications/resources/list_changed" ->
             {"ResourcesList", "ResourceTemplatesList"}

Matches(entry, dir, kind, method, tool) ==
    /\ entry.dir = dir /\ entry.kind = kind
    /\ method \in entry.methods
    /\ entry.tool \in {AnyTool, tool}

NoMount == [program |-> "none", outcome |-> "none"]

\* Slip: a later entry hides an earlier one.
FindLastMount(dir, kind, method, tool) ==
    LET hits == {i \in DOMAIN MountTable : Matches(MountTable[i], dir, kind, method, tool)}
    IN  IF hits = {} THEN NoMount
        ELSE MountTable[CHOOSE i \in hits : \A j \in hits : j <= i]

\* find_mount: the first entry that matches.
FindMount(dir, kind, method, tool) ==
    LET hits == {i \in DOMAIN MountTable : Matches(MountTable[i], dir, kind, method, tool)}
    IN  IF hits = {} THEN NoMount
        ELSE MountTable[CHOOSE i \in hits : \A j \in hits : i <= j]

NoTool == "no tool"
CachePrograms == {"CacheInitializeView", "CacheToolsList", "CachePromptsList",
                  "CacheResourcesList", "CacheResourceTemplatesList"}

\* route_for_client_request: methods nobody mounted pass through, and so does
\* one behind the legacy prefix that names no control.
RouteForClientRequest(method) ==
    LET program == FindMount("c2s", "request", method, NoTool).program
    IN  CASE program \in CachePrograms -> "McpData"
          [] program = "LocalPing" -> "Local"
          [] program = "LegacyBackendHook"
               /\ \E x \in DOMAIN LegacyControls : LegacyControls[x] = method
                 -> "WrapperControl"
          [] OTHER -> "PassThrough"

LegacyControlOf(method) == CHOOSE x \in DOMAIN LegacyControls : LegacyControls[x] = method

IsWrapperToolRequest(method, tool) ==
    /\ method = "tools/call"
    /\ FindMount("c2s", "request", "tools/call", tool).program = "InvokeWrapperTool"

NotificationProgram(dir, method) == FindMount(dir, "notification", method, NoTool).program

ListChangedDataKeys(method) ==
    IF NotificationProgram("s2c", method) = "RefreshCacheThenPass"
    THEN RefreshTargets(method) ELSE {}

ShouldDropClientNotification(method) ==
    FindMount("c2s", "notification", method, NoTool).outcome = "Drop"
=============================================================================
