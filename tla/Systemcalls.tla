---------------------------- MODULE Systemcalls ----------------------------
(***************************************************************************)
(* examples/systemcalls: a caller that runs commands with do_system,       *)
(* do_exec and do_exec_redirect, one after the other, the child processes  *)
(* it forks, and the signals that may interrupt it while it waits.         *)
(*                                                                         *)
(* Call number k has a child of its own, called k as well, which may       *)
(* outlive the call.  A command is a model value; whether it exists and    *)
(* what it does is up to the child.                                        *)
(***************************************************************************)
EXTENDS Naturals

CONSTANTS Function,    \* the functions the caller uses
          MaxCalls,    \* bound: calls made
          MaxSignals   \* bound: handled signals that hit the caller in waitpid

ASSUME FunctionAssumption ==
  Function \subseteq {"do_system", "do_exec", "do_exec_redirect"}
ASSUME BoundsAssumption == MaxCalls \in Nat /\ MaxSignals \in Nat

VARIABLES
  k,         \* the number of the call in progress, or of the last one
  fn,        \* the function of each call
  pc,        \* where the caller is
  result,    \* what each call returned: "none", "true", "false"
  status,    \* the local variable status
  signals,   \* signals that have interrupted the caller
  child,     \* what each child is doing
  code,      \* how it ended, as waitpid reports it
  stdout,    \* where descriptor 1 of each child leads
  file_desc  \* whether the child has the output file open besides

vars == <<k, fn, pc, result, status, signals, child, code, stdout, file_desc>>

Calls == 1..MaxCalls

(* Wait statuses: exit(0), exit(EXIT_FAILURE), SIGKILL.                    *)
SUCCESS == 0
FAILURE == 256
KILLED == 9
Ends == {SUCCESS, FAILURE, KILLED}

Init == /\ k = 0
        /\ fn = [i \in Calls |-> "none"]
        /\ pc = "idle"
        /\ result = [i \in Calls |-> "none"]
        /\ status = 0
        /\ signals = 0
        /\ child = [i \in Calls |-> "none"]
        /\ code = [i \in Calls |-> 0]
        /\ stdout = [i \in Calls |-> "caller's"]
        /\ file_desc = [i \in Calls |-> "closed"]

-----------------------------------------------------------------------------
(* The caller.                                                             *)

Return(value) == /\ pc' = "idle"
                 /\ result' = [result EXCEPT ![k] = IF value THEN "true" ELSE "false"]

Call == /\ pc = "idle"
        /\ k < MaxCalls
        /\ k' = k + 1
        /\ \E f \in Function : /\ fn' = [fn EXCEPT ![k'] = f]
                               /\ pc' = IF f = "do_system" THEN "system" ELSE "fork"
        /\ UNCHANGED <<result, status, signals, child, code, stdout, file_desc>>

(* cmd == NULL and a failed system() return false; system() waits for the  *)
(* shell whatever signals come, and reports how it ended.                  *)
do_system ==
  /\ pc = "system"
  /\ \/ Return(FALSE) /\ UNCHANGED <<child, code>>
     \/ \E c \in Ends :
          /\ child' = [child EXCEPT ![k] = "reaped"]
          /\ code' = [code EXCEPT ![k] = c]
          /\ Return(c = 0)   \* result != 0
  /\ UNCHANGED <<k, fn, status, signals, stdout, file_desc>>

(* int status = 0 is the parent's.                                         *)
Fork == /\ pc = "fork"
        /\ \/ Return(FALSE) /\ UNCHANGED <<status, child>>
           \/ /\ pc' = "waitpid"
              /\ status' = 0
              /\ child' = [child EXCEPT ![k] = IF fn[k] = "do_exec" THEN "execv" ELSE "open"]
              /\ UNCHANGED result
        /\ UNCHANGED <<k, fn, signals, code, stdout, file_desc>>

(* WIFEXITED(status) && WEXITSTATUS(status) == 0                           *)
Succeeded(s) == s % 128 = 0 /\ (s \div 256) % 256 = 0

Waited == /\ pc = "waitpid"
          /\ child[k] = "zombie"
          /\ status' = code[k]
          /\ child' = [child EXCEPT ![k] = "reaped"]
          /\ Return(Succeeded(status'))
          /\ UNCHANGED <<k, fn, signals, code, stdout, file_desc>>

(* Mutant: do_exec_redirect does not look at what waitpid returns.         *)
IgnoresWaitFailure == Return(Succeeded(status))

(* do_exec_redirect looks at what waitpid returns; do_exec does not, and   *)
(* goes on with the value that status was given before.                    *)
WaitFailed == Return(fn[k] = "do_exec" /\ Succeeded(status))

(* EINTR: a signal with a handler that is installed without SA_RESTART.    *)
Interrupted == /\ pc = "waitpid"
               /\ signals < MaxSignals
               /\ signals' = signals + 1
               /\ WaitFailed
               /\ UNCHANGED <<k, fn, status, child, code, stdout, file_desc>>

-----------------------------------------------------------------------------
(* A child.                                                                *)

Terminate(i, c) == /\ child' = [child EXCEPT ![i] = "zombie"]
                   /\ code' = [code EXCEPT ![i] = c]

OpenFile(i) == /\ child[i] = "open"
               /\ \/ /\ child' = [child EXCEPT ![i] = "dup2"]
                     /\ file_desc' = [file_desc EXCEPT ![i] = "open"]
                     /\ UNCHANGED code
                  \/ Terminate(i, FAILURE) /\ UNCHANGED file_desc
               /\ UNCHANGED <<k, fn, pc, result, status, signals, stdout>>

(* Mutant: a failed dup2 does not stop the child.                          *)
Dup2FailsIgnored(i) == /\ child' = [child EXCEPT ![i] = "execv"]
                       /\ UNCHANGED <<code, stdout>>

Dup2Fails(i) == Terminate(i, FAILURE) /\ UNCHANGED stdout

(* Both ways out of dup2 close file_desc.                                  *)
Dup2(i) == /\ child[i] = "dup2"
           /\ \/ /\ stdout' = [stdout EXCEPT ![i] = "file"]
                 /\ child' = [child EXCEPT ![i] = "execv"]
                 /\ UNCHANGED code
              \/ Dup2Fails(i)
           /\ file_desc' = [file_desc EXCEPT ![i] = "closed"]
           /\ UNCHANGED <<k, fn, pc, result, status, signals>>

Execv(i) == /\ child[i] = "execv"
            /\ \/ child' = [child EXCEPT ![i] = "command"] /\ UNCHANGED code
               \/ Terminate(i, FAILURE)    \* perror, exit(EXIT_FAILURE)
            /\ UNCHANGED <<k, fn, pc, result, status, signals, stdout, file_desc>>

Command(i) == /\ child[i] = "command"
              /\ \E c \in Ends : Terminate(i, c)
              /\ UNCHANGED <<k, fn, pc, result, status, signals, stdout, file_desc>>

-----------------------------------------------------------------------------

Caller == Call \/ do_system \/ Fork \/ Waited \/ Interrupted
Child(i) == OpenFile(i) \/ Dup2(i) \/ Execv(i) \/ Command(i)

Next == Caller \/ \E i \in Calls : Child(i)

Spec == Init /\ [][Next]_vars

-----------------------------------------------------------------------------
(* Properties.                                                             *)

(***************************************************************************)
(* A function returns true only for a command that was executed and has    *)
(* exited with 0; "false if an error occurred, either in invocation of the *)
(* fork, waitpid, or execv() command, or if a non-zero return value was    *)
(* returned".                                                              *)
(***************************************************************************)
TrueMeansSuccess ==
  \A i \in Calls : result[i] = "true" => child[i] = "reaped" /\ code[i] = SUCCESS

(***************************************************************************)
(* Under do_exec_redirect no command ever runs with the caller's standard  *)
(* output, and none inherits the descriptor that redirected it.            *)
(***************************************************************************)
OutputRedirected ==
  \A i \in Calls : fn[i] = "do_exec_redirect" /\ child[i] = "command" =>
    stdout[i] = "file" /\ file_desc[i] = "closed"

=============================================================================
