-------------------------------- MODULE Shell --------------------------------
(* The life of one spawned command: run_command's plain spawn (src/tools.py),   *)
(* the restricted-token and job-object spawn of src/winsandbox.py with its      *)
(* probe, and a hook (src/hooks.py).  A command is a process (the kid) that may *)
(* start another one (the grandchild) which shares its output pipe.             *)
EXTENDS Naturals, FiniteSets

VARIABLES host,   \* [windows, sandbox, required]: os.name == "nt", CODE_SANDBOX_SPAWN
                  \* and CODE_SANDBOX_REQUIRED
          proc,   \* the spawn in progress, or Idle
          avail,  \* winsandbox._AVAIL: "unknown", "yes" or "no"
          left    \* the last spawn that ended, as it was left behind
shellVars == <<host, proc, avail, left>>

Vias == {"probe", "job", "plain", "hook"}
Handles == {"token", "job", "read", "write", "nul", "thread", "process"}

Idle == [at |-> "idle"]
Busy == proc.at # "idle"

(* kid: "none", "held" (suspended), "runs" or "over"; heir: the grandchild      *)
(* lives; caged: the kid was assigned to the job; out: how the spawn ended.     *)
Spawned(via, at) == [via |-> via, at |-> at, held |-> {}, kid |-> "none", heir |-> FALSE,
                     caged |-> FALSE, timed |-> FALSE, out |-> "none"]

ShellInit == proc = Idle /\ avail = "unknown" /\ left = Idle

(* The pipe reaches its end when no process holds the write end any more; one   *)
(* that is suspended holds it too.                                              *)
PipeEnded(p) == p.kid \notin {"held", "runs"} /\ ~p.heir

(* Something of the spawn can still act. *)
Alive(p) == p.kid = "runs" \/ p.heir

Step(at) == proc' = [proc EXCEPT !.at = at]

Done(p, out) == /\ proc' = [p EXCEPT !.at = "ended", !.out = out]
                /\ left' = [p EXCEPT !.at = "ended", !.out = out]

------------------------------------------------------------------------------
(* winsandbox._spawn: each primitive may fail; what was opened before it is     *)
(* closed, and the spawn is given up.                                           *)
Unavailable(held) == Done([proc EXCEPT !.held = held], "unavailable")

OpenToken == /\ proc.at = "token"
             /\ \/ proc' = [proc EXCEPT !.at = "job", !.held = {"token"}] /\ UNCHANGED left
                \/ Unavailable({})
             /\ UNCHANGED avail

MakeJob == /\ proc.at = "job"
           /\ \/ proc' = [proc EXCEPT !.at = "pipe", !.held = @ \cup {"job"}] /\ UNCHANGED left
              \/ Unavailable(proc.held \ {"token"})
           /\ UNCHANGED avail

\* Mutant of MakePipe: the way out of a failed pipe forgets the job.
MakePipeOrLeak ==
  /\ proc.at = "pipe"
  /\ \/ /\ proc' = [proc EXCEPT !.at = "create", !.held = @ \cup {"read", "write", "nul"}]
        /\ UNCHANGED left
     \/ Unavailable(proc.held \ {"token"})
  /\ UNCHANGED avail

MakePipe == /\ proc.at = "pipe"
            /\ \/ /\ proc' = [proc EXCEPT !.at = "create", !.held = @ \cup {"read", "write", "nul"}]
                  /\ UNCHANGED left
               \/ Unavailable(proc.held \ {"token", "job"})
            /\ UNCHANGED avail

CreateProcess ==
  /\ proc.at = "create"
  /\ \/ /\ proc' = [proc EXCEPT !.at = "assign", !.kid = "held",
                                !.held = @ \cup {"thread", "process"}]
        /\ UNCHANGED left
     \/ Unavailable(proc.held \ {"write", "read", "nul", "token", "job"})
  /\ UNCHANGED avail

(* The result of AssignProcessToJobObject is not looked at. *)
AssignToJob == /\ proc.at = "assign"
               /\ \E done \in BOOLEAN : proc' = [proc EXCEPT !.at = "resume", !.caged = done]
               /\ UNCHANGED <<avail, left>>

(* Neither is ResumeThread's: the kid may stay suspended. *)
Resume == /\ proc.at = "resume"
          /\ \E kid \in {"held", "runs"} :
               proc' = [proc EXCEPT !.at = "read", !.kid = kid, !.held = @ \ {"write", "nul"}]
          /\ UNCHANGED <<avail, left>>

(* The read end is made a file and its thread is started; when either raises,   *)
(* the exception leaves _spawn with all that is open, and the kid as it is.     *)
OpenReader == /\ proc.at = "read"
              /\ \/ Step("wait") /\ UNCHANGED left
                 \/ Done(proc, "broken")
              /\ UNCHANGED avail

(* WaitForSingleObject: the kid is over, or the time is, and TerminateProcess   *)
(* ends it or fails, which is not looked at.                                    *)
WaitForKid == /\ proc.at = "wait"
              /\ \/ proc.kid = "over" /\ Step("drain")
                 \/ /\ proc.kid # "over"
                    /\ \E kid \in {proc.kid, "over"} :
                         proc' = [proc EXCEPT !.at = "drain", !.kid = kid, !.timed = TRUE]
              /\ UNCHANGED <<avail, left>>

\* Mutant of Drain: the thread is joined without a time limit.
DrainToTheEnd == /\ proc.at = "drain" /\ PipeEnded(proc)
                 /\ proc' = [proc EXCEPT !.at = "close", !.held = @ \ {"read"}]
                 /\ UNCHANGED <<avail, left>>

(* The reader's thread is joined for five seconds; it closes the read end when  *)
(* the pipe ends.                                                               *)
Drain == /\ proc.at = "drain"
         /\ proc' = [proc EXCEPT !.at = "close", !.held = IF PipeEnded(proc) THEN @ \ {"read"} ELSE @]
         /\ UNCHANGED <<avail, left>>

(* Closing the job kills what is left in it, and the reader then meets the end. *)
CloseAll == /\ proc.at = "close"
            /\ LET p == [proc EXCEPT !.held = @ \ {"thread", "process", "token", "job"},
                                     !.kid = IF proc.caged THEN "over" ELSE @,
                                     !.heir = @ /\ ~proc.caged]
               IN Done([p EXCEPT !.held = IF PipeEnded(p) THEN {} ELSE @],
                       IF p.timed THEN "timeout" ELSE "ran")
            /\ UNCHANGED avail

SandboxStep == OpenToken \/ MakeJob \/ MakePipe \/ CreateProcess \/ AssignToJob \/ Resume
                 \/ OpenReader \/ (proc.via \in {"probe", "job"} /\ (WaitForKid \/ Drain \/ CloseAll))

(* available: the outcome of the probe is kept for good, an exception as a no;  *)
(* the command goes on with a spawn of its own, or without the sandbox.         *)
NoSandbox == IF host.required THEN Done(Spawned("job", "token"), "refused")
             ELSE proc' = Spawned("plain", "popen") /\ UNCHANGED left

AfterProbe ==
  /\ proc.at = "ended" /\ proc.via = "probe"
  /\ \E good \in BOOLEAN :
       /\ good => proc.out = "ran"
       /\ avail' = IF good THEN "yes" ELSE "no"
       /\ IF good THEN proc' = Spawned("job", "token") /\ UNCHANGED left ELSE NoSandbox

(* A spawn that became unavailable after the probe is handled as if it had been. *)
AfterSpawn == /\ proc.at = "ended" /\ proc.via = "job" /\ proc.out = "unavailable"
              /\ NoSandbox
              /\ UNCHANGED avail

------------------------------------------------------------------------------
(* subprocess.run with a timeout, and the hooks' Popen in a group of its own. *)
Popen == /\ proc.at = "popen"
         /\ \/ proc' = [proc EXCEPT !.at = "talk", !.kid = "runs"] /\ UNCHANGED left
            \/ Done(proc, "error")
         /\ UNCHANGED avail

(* communicate: until the pipe ends, or the time is over. *)
Communicate == /\ proc.at = "talk"
               /\ \/ PipeEnded(proc) /\ Done(proc, "ran")
                  \/ proc' = [proc EXCEPT !.at = "kill", !.timed = TRUE] /\ UNCHANGED left
               /\ UNCHANGED avail

(* subprocess.run kills the kid; on Windows it then reads the pipe to its end,  *)
(* elsewhere it only waits for the kid.                                         *)
KillKid == /\ proc.at = "kill" /\ proc.via = "plain"
           /\ LET p == [proc EXCEPT !.kid = "over"]
              IN IF host.windows THEN proc' = [p EXCEPT !.at = "reap"] /\ UNCHANGED left
                 ELSE Done(p, "timeout")
           /\ UNCHANGED avail

ReapKid == /\ proc.at = "reap" /\ proc.via = "plain"
           /\ PipeEnded(proc) /\ Done(proc, "timeout")
           /\ UNCHANGED avail

(* _kill_tree: the group is killed, or only the shell when that raises; a       *)
(* taskkill that fails raises nothing and kills nothing.  Then the pipe is read *)
(* for at most five seconds.                                                    *)
KillTree == /\ proc.at = "kill" /\ proc.via = "hook"
            /\ \E kid \in {proc.kid, "over"}, heir \in {proc.heir, FALSE} :
                 Done([proc EXCEPT !.kid = kid, !.heir = heir], "timeout")
            /\ UNCHANGED avail

(* Ctrl-C: subprocess.run kills the kid, _spawn and the hooks let go of all.    *)
Interrupt == /\ proc.at \in {"read", "wait", "drain", "talk", "reap"}
             /\ Done([proc EXCEPT !.kid = IF proc.via = "plain" THEN "over" ELSE @], "interrupted")
             /\ UNCHANGED avail

PlainStep == Popen \/ Communicate \/ KillKid \/ ReapKid \/ KillTree

------------------------------------------------------------------------------
(* The processes themselves. *)
KidStartsAnother == /\ Busy /\ proc.at # "ended" /\ proc.kid = "runs" /\ ~proc.heir
                    /\ proc' = [proc EXCEPT !.heir = TRUE] /\ UNCHANGED <<avail, left>>

KidEnds == /\ Busy /\ proc.at # "ended" /\ proc.kid = "runs"
           /\ proc' = [proc EXCEPT !.kid = "over"] /\ UNCHANGED <<avail, left>>

HeirEnds == /\ Busy /\ proc.at # "ended" /\ proc.heir
            /\ proc' = [proc EXCEPT !.heir = FALSE] /\ UNCHANGED <<avail, left>>

(* A call begins: _sandboxed_run decides on the way, a hook has only one. *)
BeginCommand ==
  /\ \/ ~(host.sandbox /\ host.windows) /\ proc' = Spawned("plain", "popen")
     \/ /\ host.sandbox /\ host.windows
        /\ \/ avail = "unknown" /\ proc' = Spawned("probe", "token")
           \/ avail = "yes" /\ proc' = Spawned("job", "token")
           \/ /\ avail = "no"
              /\ proc' = IF host.required THEN [Spawned("job", "ended") EXCEPT !.out = "refused"]
                         ELSE Spawned("plain", "popen")
  /\ UNCHANGED <<avail, left>>

BeginHook == proc' = Spawned("hook", "popen") /\ UNCHANGED <<avail, left>>

ShellStep == \/ Busy /\ proc.at # "ended" /\ (SandboxStep \/ PlainStep)
             \/ AfterProbe \/ AfterSpawn

Processes == KidStartsAnother \/ KidEnds \/ HeirEnds

(* A spawn is over for its caller. *)
Returned == /\ proc.at = "ended" /\ proc.via # "probe"
            /\ ~(proc.via = "job" /\ proc.out = "unavailable")
==============================================================================
