---------------------------- MODULE EventSource ----------------------------
(***************************************************************************)
(* What the window may expect of the thread behind SourceHandle, whichever *)
(* build it comes from: commands are taken in their order, the syscall     *)
(* table precedes every event, and a thread that was told to stop sends    *)
(* nothing more.  Events are such as the configuration in force admits, or *)
(* they are late: of calls that an earlier configuration had admitted and  *)
(* that had not been sent when it was replaced.  Each of those may still   *)
(* come, once.                                                             *)
(***************************************************************************)
EXTENDS Integers, Sequences

CONSTANTS Configs, StopCommand, Admits(_, _)

VARIABLES
  commands,   (* sent by the window and not taken yet                        *)
  config,     (* the configuration in force                                  *)
  calls,      (* events of calls that were admitted and are not queued yet   *)
  late,       (* events that may come though config does not admit them      *)
  running,
  heard,      (* has it sent a table, has it sent events                     *)
  last        (* the last of those                                           *)

vars == <<commands, config, calls, late, running, heard, last>>

Init ==
  /\ commands \in {<<c>> : c \in Configs} /\ config \in Configs
  /\ late = {e \in calls : ~Admits(config, e)}
  /\ running = TRUE /\ heard = {} /\ last = [kind |-> "none"]

Order ==
  /\ \E c \in Configs \cup {StopCommand} : commands' = Append(commands, c)
  /\ UNCHANGED <<config, calls, late, running, heard, last>>

(* A configuration may be refused, then the old one stays in force.  Only  *)
(* calls that were on their way become late: what was queued is not sent.  *)
Configure ==
  /\ running /\ commands # << >> /\ Head(commands) # StopCommand
  /\ commands' = Tail(commands) /\ config' \in {config, Head(commands)}
  /\ late' \subseteq late \cup {e \in calls : ~Admits(config', e)}
  /\ UNCHANGED <<calls, running, heard, last>>

(* A call passes the filter; it is queued, or lost, in a later step.       *)
Pass ==
  /\ \E e \in calls' : calls' = calls \cup {e} /\ Admits(config, e)
  /\ UNCHANGED <<commands, config, late, running, heard, last>>

Finish ==
  /\ calls' \subseteq calls /\ late' \subseteq late
  /\ UNCHANGED <<commands, config, running, heard, last>>

(* On a stop, or because there is no driver to talk to.                    *)
End ==
  /\ running /\ running' = FALSE
  /\ \/ commands' = commands
     \/ commands # << >> /\ Head(commands) = StopCommand /\ commands' = Tail(commands)
  /\ UNCHANGED <<config, calls, late, heard, last>>

Table ==
  /\ last'.kind = "table" /\ "events" \notin heard
  /\ late' = late

Events ==
  /\ last'.kind = "events"
  /\ \A i \in 1..Len(last'.events) :
       Admits(config, last'.events[i]) \/ last'.events[i] \in late
  /\ late' = late \ {last'.events[i] : i \in 1..Len(last'.events)}

Send ==
  /\ running
  /\ Table \/ Events
  /\ heard' = heard \cup {last'.kind}
  /\ UNCHANGED <<commands, config, calls, running>>

Next == Order \/ Configure \/ Pass \/ Finish \/ End \/ Send

Spec == Init /\ [][Next]_vars
=============================================================================
