------------------------- MODULE MCBrowserController -------------------------
(* BrowserController with a handful of requests.                           *)
EXTENDS BrowserController, TLC

CONSTANTS u1, t1, t2

Do(tool, path) ==
    [tool |-> tool, path |-> path, extra |-> tool = "tabs_create" /\ path = <<>>,
     tab |-> IF tool \in Untargeted THEN Nil ELSE u1,
     byRef |-> tool \in {"computer", "form_input"}]

Single(tool) == [batch |-> FALSE, actions |-> <<Do(tool, <<>>)>>]
Batch(actions) == [batch |-> TRUE, actions |-> actions]

SomeRequests ==
    {Single(tool) : tool \in {"read_console_messages", "find", "tabs_create",
                             "tabs_close", "label_session"}}
    \cup {Batch(<<Do("tabs_create", <<>>), Do("javascript_tool", <<>>)>>),
          Batch(<<Do("find", <<1>>), Do("form_input", <<1>>), Do("label_session", <<1>>),
                  Do("tabs_create", <<1>>), Do("computer", <<>>)>>)}

Alike == Permutations({t1, t2}) \cup Permutations(Sessions) \cup Permutations(Calls)
=============================================================================
