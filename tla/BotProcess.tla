----------------------------- MODULE BotProcess -----------------------------
(***************************************************************************)
(* The process and the commands it answers: commands come in through a     *)
(* gateway that serves, answer by themselves whatever becomes of the       *)
(* gateway, and are gone with the process.                                 *)
(***************************************************************************)
EXTENDS Runtime, ReadCommands

vars == <<procVars, readVars>>

Init == RuntimeInit /\ ReadInit

\* A step of the process; its end takes the command along.
ProcessStep ==
    /\ RuntimeNext
    /\ IF proc' = "down" THEN job' = NoJob /\ get' = Fresh /\ reply' = NoReply
       ELSE UNCHANGED readVars

Arrives == gateway = "serving" /\ BeginCommand /\ UNCHANGED procVars

\* ctx.send, and what on_error sends when the command has failed.
Sent ==
    /\ job.pc \in {"send", "sorry"}
    /\ job' = NoJob /\ reply' = NoReply
    /\ UNCHANGED <<get, procVars>>

\* ctx.send fails: on_error tries to say so, once.
SendFails ==
    /\ faults < MaxFaults
    /\ job.pc \in {"send", "sorry"}
    /\ job' = IF job.pc = "send" THEN [pc |-> "sorry"] ELSE NoJob
    /\ faults' = faults + 1 /\ reply' = NoReply
    /\ UNCHANGED <<get, proc, env, core, detached, gateway, ended, starts>>

CommandStep == (Answered /\ UNCHANGED procVars) \/ Sent \/ SendFails

Next == ProcessStep \/ Arrives \/ CommandStep

Spec == Init /\ [][Next]_vars

\* Tasks are scheduled, and the HTTP client's timeout ends every request.
FairSpec == Spec /\ RuntimeFairness /\ WF_vars(CommandStep)

-----------------------------------------------------------------------------
(* Properties                                                              *)

\* Types of the process and of the command in progress; no command outlives the process.
TypeOK ==
    /\ RuntimeTypeOK /\ ReadTypeOK
    /\ job.pc # "none" => proc = "up"

\* A command comes to its end, with a reply or without: retries are limited, and so
\* are the pages, also when their cursors lead in a circle.
EveryCommandEnds == (job.pc # "none") ~> (job.pc = "none")
=============================================================================
