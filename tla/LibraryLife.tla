----------------------------- MODULE LibraryLife ------------------------------
(***************************************************************************)
(* What starting and stopping the library promises, without flags, loops or  *)
(* the order of the components: all workers are created before any works;    *)
(* nobody begins to work once the library is closing; threads end only when  *)
(* nobody works, and all have ended when the library is off.  ThreadBase      *)
(* implements it.                                                            *)
(***************************************************************************)
CONSTANT Workers

VARIABLES
  phase,   \* "off", "starting", "on", "closing", or "quiet": nobody works any more
  alive,   \* workers whose thread exists
  busy     \* workers inside run()

vars == <<phase, alive, busy>>

Init == phase = "off" /\ alive = {} /\ busy = {}

Turn(from, to) == phase = from /\ phase' = to /\ UNCHANGED <<alive, busy>>

Open == Turn("off", "starting")

Create(w) ==
  /\ phase = "starting" /\ w \notin alive
  /\ alive' = alive \cup {w}
  /\ UNCHANGED <<phase, busy>>

\* A start succeeds as a whole or not at all.
Opened == alive = Workers /\ Turn("starting", "on")
Fail == Turn("starting", "quiet")

Enter(w) ==
  /\ phase = "on" /\ w \in alive
  /\ busy' = busy \cup {w}
  /\ UNCHANGED <<phase, alive>>

Return(w) ==
  /\ w \in busy
  /\ busy' = busy \ {w}
  /\ UNCHANGED <<phase, alive>>

Close == Turn("on", "closing")
Quiesce == busy = {} /\ Turn("closing", "quiet")

End(w) ==
  /\ phase = "quiet"
  /\ alive' = alive \ {w}
  /\ UNCHANGED <<phase, busy>>

\* A start that created nothing has nothing to end.
Off == alive = {} /\ (Turn("quiet", "off") \/ Turn("starting", "off"))

Next ==
  \/ Open \/ Opened \/ Fail \/ Close \/ Quiesce \/ Off
  \/ \E w \in Workers : Create(w) \/ Enter(w) \/ Return(w) \/ End(w)

Spec == Init /\ [][Next]_vars

-----------------------------------------------------------------------------
\* What a caller makes of it: only threads that exist work, none exists while the library
\* is off, and nobody works while threads are created or ended.
Clean ==
  /\ alive \subseteq Workers /\ busy \subseteq alive
  /\ phase = "off" => alive = {}
  /\ phase \in {"starting", "quiet"} => busy = {}

=============================================================================
