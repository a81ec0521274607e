------------------------------- MODULE Sandbox --------------------------------
(***************************************************************************)
(* The child process in which a document is parsed, and the worker that    *)
(* waits for its answer (sandbox.py).  The deadline bounds the wait for    *)
(* the first byte; what the worker then receives has no deadline.          *)
(*                                                                         *)
(* The child may hang, and may die at any time: memory, CPU seconds, a     *)
(* crash of a library.  A helper is a Tesseract process it has started, in *)
(* its process group.                                                      *)
(***************************************************************************)
EXTENDS Naturals

VARIABLES
    parent,     \* "waiting", "receiving", "closing", "terminating", "done"
    answer,     \* "none", "value" or "error": what run() will return or raise
    child,      \* "booting", "working", "sending", "sent", "dead"
    message,    \* "none", "partial", "whole": what is in the pipe
    helper,     \* a Tesseract process is running
    orphaned    \* the child died without its process group

svars == <<parent, answer, child, message, helper, orphaned>>

SandboxTypeOK ==
    /\ parent \in {"waiting", "receiving", "closing", "terminating", "done"}
    /\ answer \in {"none", "value", "error"}
    /\ child \in {"booting", "working", "sending", "sent", "dead"}
    /\ message \in {"none", "partial", "whole"}
    /\ helper \in BOOLEAN /\ orphaned \in BOOLEAN

SandboxInit ==
    /\ parent = "waiting" /\ answer = "none"
    /\ child = "booting" /\ message = "none"
    /\ helper = FALSE /\ orphaned = FALSE

(****************************** The child **********************************)

\* It leads a process group of its own before it touches the document.
SetSession ==
    /\ child = "booting" /\ child' = "working"
    /\ UNCHANGED <<parent, answer, message, helper, orphaned>>

StartHelper ==
    /\ child = "working" /\ ~helper /\ helper' = TRUE
    /\ UNCHANGED <<parent, answer, child, message, orphaned>>
HelperEnds ==
    /\ helper /\ helper' = FALSE
    /\ UNCHANGED <<parent, answer, child, message, orphaned>>

\* A result with page images is longer than the pipe: it arrives in parts.
\* An error may be sent before the session is set up, too.
BeginSend ==
    /\ child \in {"booting", "working"} /\ ~helper
    /\ child' = "sending" /\ message' = "partial"
    /\ UNCHANGED <<parent, answer, helper, orphaned>>
EndSend ==
    /\ child = "sending"
    /\ child' = "sent" /\ message' = "whole"
    /\ UNCHANGED <<parent, answer, helper, orphaned>>

Exit ==
    /\ child = "sent" /\ child' = "dead"
    /\ UNCHANGED <<parent, answer, message, helper, orphaned>>

Die ==
    /\ child \in {"booting", "working", "sending"}
    /\ child' = "dead" /\ orphaned' = helper
    /\ UNCHANGED <<parent, answer, message, helper>>

(****************************** The worker *********************************)

\* The pipe is readable as soon as a byte is in it, or nobody holds its end.
Readable == message # "none" \/ child = "dead"

Poll ==
    /\ parent = "waiting" /\ Readable
    /\ parent' = "receiving"
    /\ UNCHANGED <<answer, child, message, helper, orphaned>>

DeadlinePasses ==
    /\ parent = "waiting" /\ ~Readable
    /\ parent' = "closing" /\ answer' = "error"
    /\ UNCHANGED <<child, message, helper, orphaned>>

\* A message cut short is an error of the run like an empty pipe.
ReceiveEnd ==
    /\ parent = "receiving" /\ child = "dead" /\ message # "whole"
    /\ parent' = "closing" /\ answer' = "error"
    /\ UNCHANGED <<child, message, helper, orphaned>>

\* The message says whether the child has a result.
Receive(ok) ==
    /\ parent = "receiving" /\ message = "whole"
    /\ parent' = "closing" /\ answer' = IF ok THEN "value" ELSE "error"
    /\ UNCHANGED <<child, message, helper, orphaned>>

\* A child that is still there is killed with its group; one that has no
\* group yet is terminated alone, a moment later.
KillGroup_ChildOnly ==
    /\ parent = "closing" /\ child \notin {"booting", "dead"}
    /\ parent' = "done" /\ child' = "dead"
    /\ UNCHANGED <<answer, message, helper, orphaned>>
KillGroup ==
    /\ parent = "closing" /\ child \notin {"booting", "dead"}
    /\ parent' = "done" /\ child' = "dead" /\ helper' = FALSE
    /\ UNCHANGED <<answer, message, orphaned>>
NoGroup ==
    /\ parent = "closing" /\ child = "booting"
    /\ parent' = "terminating"
    /\ UNCHANGED <<answer, child, message, helper, orphaned>>
Terminate ==
    /\ parent = "terminating"
    /\ parent' = "done" /\ child' = "dead" /\ orphaned' = (orphaned \/ helper)
    /\ UNCHANGED <<answer, message, helper>>
Join ==
    /\ parent = "closing" /\ child = "dead"
    /\ parent' = "done"
    /\ UNCHANGED <<answer, child, message, helper, orphaned>>

\* The worker's steps but the receipt of a result, which OcrJob completes.
WorkerStep ==
    Poll \/ DeadlinePasses \/ ReceiveEnd \/ KillGroup \/ NoGroup \/ Terminate \/ Join
=============================================================================
