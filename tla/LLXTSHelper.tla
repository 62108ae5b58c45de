----------------------------- MODULE LLXTSHelper -----------------------------
(***************************************************************************)
(* The lock of the programs: an auto-reset event that gives access, and an *)
(* event that cancels all access for good.  A thread that is inside and    *)
(* enters again waits for itself.                                          *)
(***************************************************************************)
EXTENDS Naturals, FiniteSets

VARIABLES
    access,    \* m_hTSEventAccessSafe, auto-reset
    cancelled, \* LLXTSHelper_FLAG_EXIT and m_hTSEventExit
    inside     \* the threads between safeEnterFunc, if it succeeded, and safeExitFunc

lockVars == <<access, cancelled, inside>>

LockInit ==
    /\ access = TRUE
    /\ cancelled = FALSE
    /\ inside = {}

\* safeEnterFunc returns true: it has taken the event that gives access.
SafeEnter(u) ==
    /\ ~cancelled
    /\ access
    /\ access' = FALSE
    /\ inside' = inside \cup {u}
    /\ UNCHANGED cancelled

\* safeEnterFunc returns false: of two events the exit event comes first.
SafeEnterFails == cancelled /\ UNCHANGED lockVars

\* safeExitFunc does not know whether the caller is inside.
SafeExit(u) ==
    /\ access' = TRUE
    /\ inside' = inside \ {u}
    /\ UNCHANGED cancelled

CancelAllAccess == cancelled' = TRUE /\ UNCHANGED <<access, inside>>

\* One thread at a time is inside, and access is given again when it leaves,
\* until all access is cancelled: threads that are refused may go on.
LockOK ==
    /\ {access, cancelled} \subseteq BOOLEAN
    /\ ~cancelled => Cardinality(inside) = IF access THEN 0 ELSE 1
=============================================================================
