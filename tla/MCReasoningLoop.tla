-------------------------- MODULE MCReasoningLoop --------------------------
(* Calls for TLC: one tool of each kind that the loop tells apart.           *)
EXTENDS ReasoningLoop

Call(t, a) == [tool |-> t, arg |-> a]

\* every way in which a call is answered
MCCalls == {Call("compact", ""), Call("web_search", "q"), Call("git_add", ""),
            Call("tool_search", "git_add"), Call("tool_search", "delete_all"),
            Call("delete_all", "")}
MCDirect == {"compact", "web_search"}
MCDeferred == {"git_add"}

\* reading, again and again
MCReads == {Call("read_file", "a"), Call("read_file", "b"), Call("bash", "x")}
MCReadDirect == {"read_file", "bash"}
=============================================================================
