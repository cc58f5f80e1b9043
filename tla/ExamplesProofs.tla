--------------------------- MODULE ExamplesProofs ---------------------------
(***************************************************************************)
(* What the run of MCExamples checks of two calls and three threads, proved*)
(* for any number of them and of signals: of the calls for do_system and   *)
(* do_exec_redirect only, since MCSystemcallsExec shows that do_exec breaks*)
(* TrueMeansSuccess.                                                       *)
(***************************************************************************)
EXTENDS Examples, TLAPS

(* A call in progress has returned nothing, and so have those to come; who *)
(* waits in do_exec does so because do_exec is in use.                     *)
CallInv ==
  /\ k \in 0..MaxCalls
  /\ fn \in [Calls -> Function \cup {"none"}]
  /\ result \in [Calls -> {"none", "true", "false"}]
  /\ DOMAIN child = Calls
  /\ code \in [Calls -> Ends]
  /\ pc # "idle" => k \in Calls /\ result[k] = "none"
  /\ \A i \in Calls : i > k => result[i] = "none"
  /\ TrueMeansSuccess

LEMMA InitCall == Init => CallInv
BY BoundsAssumption DEF Init, CallInv, Calls, Ends, SUCCESS, TrueMeansSuccess

(* The status of a process that was reaped.                                *)
LEMMA OnlySuccessSucceeds ==
  ASSUME NEW s \in Ends, Succeeded(s)
  PROVE  s = SUCCESS
BY DEF Ends, Succeeded, SUCCESS, FAILURE, KILLED

(* The call in progress returns.                                           *)
LEMMA ReturnKeeps ==
  ASSUME CallInv, pc # "idle", UNCHANGED <<k, fn>>,
         NEW value \in BOOLEAN, Return(value),
         DOMAIN child' = Calls, code' \in [Calls -> Ends],
         \A i \in Calls : i # k => child'[i] = child[i] /\ code'[i] = code[i],
         value => child'[k] = "reaped" /\ code'[k] = SUCCESS
  PROVE  CallInv'
<1>1. k \in Calls /\ result' = [result EXCEPT ![k] = IF value THEN "true" ELSE "false"]
  BY DEF CallInv, Return
<1>2. /\ (k \in 0..MaxCalls)'
      /\ (fn \in [Calls -> Function \cup {"none"}])'
      /\ (result \in [Calls -> {"none", "true", "false"}])'
      /\ (pc = "idle")'
  BY <1>1 DEF CallInv, Return
<1>3. (\A i \in Calls : i > k => result[i] = "none")'
  BY <1>1, BoundsAssumption DEF CallInv, Calls
<1>4. TrueMeansSuccess'
  BY <1>1 DEF CallInv, TrueMeansSuccess
<1>. QED  BY <1>2, <1>3, <1>4 DEF CallInv

(* A child moves that has not been reaped.                                 *)
LEMMA ChildKeeps ==
  ASSUME CallInv, NEW i \in Calls, child[i] # "reaped", NEW step, NEW c \in Ends,
         child' = [child EXCEPT ![i] = step],
         code' \in {code, [code EXCEPT ![i] = c]},
         UNCHANGED <<k, fn, pc, result>>
  PROVE  CallInv'
<1>1. TrueMeansSuccess'
  BY DEF CallInv, TrueMeansSuccess
<1>2. (code \in [Calls -> Ends])' /\ (DOMAIN child = Calls)'
  BY DEF CallInv
<1>. QED  BY <1>1, <1>2 DEF CallInv

LEMMA CallStep ==
  ASSUME "do_exec" \notin Function, CallInv, [Next]_vars
  PROVE  CallInv'
<1>1. CASE UNCHANGED vars
  BY <1>1 DEF vars, CallInv, TrueMeansSuccess
<1>2. CASE Call
  <2>1. PICK f \in Function : /\ fn' = [fn EXCEPT ![k + 1] = f]
                              /\ k' = k + 1 /\ k < MaxCalls
                              /\ UNCHANGED <<result, child, code>>
    BY <1>2 DEF Call
  <2>2. k + 1 \in Calls /\ k + 1 \in 0..MaxCalls
    BY <2>1, BoundsAssumption DEF CallInv, Calls
  <2>3. (\A i \in Calls : i > k => result[i] = "none")' /\ result[k + 1] = "none"
    BY <2>1, <2>2, BoundsAssumption DEF CallInv, Calls
  <2>4. TrueMeansSuccess'
    BY <2>1 DEF CallInv, TrueMeansSuccess
  <2>5. (fn \in [Calls -> Function \cup {"none"}])'
    BY <2>1, <2>2 DEF CallInv
  <2>. QED  BY <2>1, <2>2, <2>3, <2>4, <2>5 DEF CallInv
<1>3. CASE do_system
  <2>1. pc # "idle" /\ k \in Calls /\ UNCHANGED <<k, fn>>
    BY <1>3 DEF do_system, CallInv
  <2>2. CASE Return(FALSE) /\ UNCHANGED <<child, code>>
    BY <2>1, <2>2, ReturnKeeps DEF CallInv
  <2>3. ASSUME NEW c \in Ends,
               child' = [child EXCEPT ![k] = "reaped"],
               code' = [code EXCEPT ![k] = c],
               Return(c = 0)
        PROVE  CallInv'
    <3>1. /\ DOMAIN child' = Calls /\ code' \in [Calls -> Ends]
          /\ \A i \in Calls : i # k => child'[i] = child[i] /\ code'[i] = code[i]
          /\ (c = 0) => child'[k] = "reaped" /\ code'[k] = SUCCESS
      BY <2>1, <2>3 DEF CallInv, SUCCESS
    <3>. QED  BY <2>1, <2>3, <3>1, ReturnKeeps
  <2>. QED  BY <1>3, <2>2, <2>3 DEF do_system
<1>4. CASE Fork
  <2>1. pc # "idle" /\ k \in Calls /\ result[k] = "none" /\ UNCHANGED <<k, fn, code>>
    BY <1>4 DEF Fork, CallInv
  <2>2. CASE Return(FALSE) /\ UNCHANGED child
    BY <2>1, <2>2, ReturnKeeps DEF CallInv
  <2>3. ASSUME NEW step, child' = [child EXCEPT ![k] = step], UNCHANGED result
        PROVE  CallInv'
    BY <2>1, <2>3 DEF CallInv, TrueMeansSuccess
  <2>. QED  BY <1>4, <2>2, <2>3 DEF Fork
<1>5. CASE Waited
  <2>1. /\ pc # "idle" /\ k \in Calls /\ UNCHANGED <<k, fn, code>>
        /\ child' = [child EXCEPT ![k] = "reaped"]
        /\ Return(Succeeded(code[k]))
    BY <1>5 DEF Waited, CallInv
  <2>2. Succeeded(code[k]) \in BOOLEAN /\ (Succeeded(code[k]) => code[k] = SUCCESS)
    BY <2>1, OnlySuccessSucceeds DEF CallInv, Succeeded
  <2>3. DOMAIN child' = Calls /\ child'[k] = "reaped"
        /\ \A i \in Calls : i # k => child'[i] = child[i]
    BY <2>1 DEF CallInv
  <2>. QED  BY <2>1, <2>2, <2>3, ReturnKeeps DEF CallInv
<1>6. CASE Interrupted
  <2>1. pc # "idle" /\ k \in Calls /\ fn[k] # "do_exec" /\ UNCHANGED <<k, fn, child, code>>
    BY <1>6 DEF Interrupted, CallInv
  <2>2. Return(FALSE)
    BY <1>6, <2>1 DEF Interrupted, WaitFailed, Return
  <2>. QED  BY <2>1, <2>2, ReturnKeeps DEF CallInv
<1>7. ASSUME NEW i \in Calls, Child(i)
      PROVE  CallInv'
  <2>1. child[i] # "reaped" /\ UNCHANGED <<k, fn, pc, result>>
    BY <1>7 DEF Child, OpenFile, Dup2, Execv, Command
  <2>2. FAILURE \in Ends
    BY DEF Ends
  <2>3. ASSUME NEW step, child' = [child EXCEPT ![i] = step], UNCHANGED code
        PROVE  CallInv'
    BY <2>1, <2>2, <2>3, ChildKeeps
  <2>4. ASSUME NEW c \in Ends, Terminate(i, c)
        PROVE  CallInv'
    BY <2>1, <2>4, ChildKeeps DEF Terminate
  <2>5. CASE OpenFile(i)
    BY <2>2, <2>3, <2>4, <2>5 DEF OpenFile
  <2>6. CASE Dup2(i)
    BY <2>2, <2>3, <2>4, <2>6 DEF Dup2, Dup2Fails
  <2>7. CASE Execv(i)
    BY <2>2, <2>3, <2>4, <2>7 DEF Execv
  <2>8. CASE Command(i)
    BY <2>4, <2>8 DEF Command
  <2>. QED  BY <1>7, <2>5, <2>6, <2>7, <2>8 DEF Child
<1>. QED  BY <1>1, <1>2, <1>3, <1>4, <1>5, <1>6, <1>7 DEF Next, Caller

(***************************************************************************)
(* Where do_exec is not used, a function returns true only for a command   *)
(* that was executed and has exited with 0 (do_system, do_exec_redirect).  *)
(***************************************************************************)
THEOREM TrueIsSuccess ==
  ASSUME "do_exec" \notin Function
  PROVE  Spec => []TrueMeansSuccess
<1>1. CallInv => TrueMeansSuccess
  BY DEF CallInv
<1>2. CallInv /\ [Next]_vars => CallInv'
  BY CallStep
<1>. QED  BY <1>1, <1>2, InitCall, PTL DEF Spec

-----------------------------------------------------------------------------

(* Before it runs the command, a child has put its output into the file    *)
(* and closed the descriptor it did that with.                             *)
ChildInv ==
  /\ DOMAIN fn = Calls /\ DOMAIN child = Calls
  /\ DOMAIN stdout = Calls /\ DOMAIN file_desc = Calls
  /\ k \in Nat
  /\ pc # "idle" => k \in Calls
  /\ \A i \in Calls : i > k \/ (i = k /\ pc = "fork") => child[i] = "none"
  /\ \A i \in Calls : fn[i] = "do_exec_redirect" /\ child[i] \in {"execv", "command"} =>
       stdout[i] = "file" /\ file_desc[i] = "closed"

LEMMA ChildStep == ChildInv /\ [Next]_vars => ChildInv'
<1>. SUFFICES ASSUME ChildInv, [Next]_vars PROVE ChildInv'
  OBVIOUS
<1>0. ASSUME pc \in {"system", "fork", "waitpid"}, pc' \in {"idle", "waitpid"},
             UNCHANGED <<k, fn, stdout, file_desc>>,
             \/ UNCHANGED child
             \/ \E step \in {"execv", "open", "reaped"} :
                  /\ child' = [child EXCEPT ![k] = step]
                  /\ step = "execv" => fn[k] # "do_exec_redirect"
      PROVE  ChildInv'
  <2>1. k \in Calls /\ k \in Nat
    BY <1>0 DEF ChildInv
  <2>2. DOMAIN child' = Calls /\ \A i \in Calls : i # k => child'[i] = child[i]
    BY <1>0 DEF ChildInv
  <2>3. \A i \in Calls : i > k => i # k /\ child[i] = "none"
    BY <2>1 DEF ChildInv, Calls
  <2>4. fn[k] = "do_exec_redirect" /\ child'[k] \in {"execv", "command"} => child'[k] = child[k]
    BY <1>0, <2>1 DEF ChildInv
  <2>5. \A i \in Calls : fn[i] = "do_exec_redirect" /\ child'[i] \in {"execv", "command"}
                           => child'[i] = child[i]
    BY <2>2, <2>4
  <2>. QED  BY <1>0, <2>1, <2>2, <2>3, <2>5 DEF ChildInv
<1>1. CASE UNCHANGED vars
  BY <1>1 DEF vars, ChildInv
<1>2. CASE Call
  <2>1. PICK f \in Function : /\ fn' = [fn EXCEPT ![k + 1] = f]
                              /\ pc' = IF f = "do_system" THEN "system" ELSE "fork"
                              /\ k' = k + 1 /\ k < MaxCalls /\ pc = "idle"
                              /\ UNCHANGED <<child, stdout, file_desc>>
    BY <1>2 DEF Call
  <2>2. k + 1 \in Calls /\ child[k + 1] = "none"
    BY <2>1, BoundsAssumption DEF ChildInv, Calls
  <2>3. \A i \in Calls : i > k' \/ (i = k' /\ pc' = "fork") => child'[i] = "none"
    BY <2>1, <2>2 DEF ChildInv, Calls
  <2>. QED  BY <2>1, <2>2, <2>3 DEF ChildInv
<1>3. CASE do_system \/ Waited
  <2>1. /\ pc \in {"system", "waitpid"} /\ pc' = "idle"
        /\ child' \in {child, [child EXCEPT ![k] = "reaped"]}
        /\ UNCHANGED <<k, fn, stdout, file_desc>>
    BY <1>3 DEF do_system, Waited, Return
  <2>. QED  BY <2>1, <1>0
<1>4. CASE Fork
  <2>1. /\ pc = "fork" /\ pc' \in {"idle", "waitpid"}
        /\ \/ UNCHANGED child
           \/ child' = [child EXCEPT ![k] = IF fn[k] = "do_exec" THEN "execv" ELSE "open"]
        /\ UNCHANGED <<k, fn, stdout, file_desc>>
    BY <1>4 DEF Fork, Return
  <2>. QED  BY <2>1, <1>0
<1>5. CASE Interrupted
  BY <1>5 DEF Interrupted, WaitFailed, Return, ChildInv
<1>6. ASSUME NEW i \in Calls, Child(i)
      PROVE  ChildInv'
  <2>1. /\ child[i] \notin {"none", "reaped"} /\ UNCHANGED <<k, fn, pc>>
        /\ ~(i > k \/ (i = k /\ pc = "fork"))
    BY <1>6 DEF Child, OpenFile, Dup2, Execv, Command, ChildInv
  <2>2. ASSUME NEW step, child' = [child EXCEPT ![i] = step],
               step \in {"execv", "command"} /\ fn[i] = "do_exec_redirect"
                 => stdout'[i] = "file" /\ file_desc'[i] = "closed",
               DOMAIN stdout' = Calls, DOMAIN file_desc' = Calls,
               \A j \in Calls \ {i} : stdout'[j] = stdout[j] /\ file_desc'[j] = file_desc[j]
        PROVE  ChildInv'
    BY <2>1, <2>2 DEF ChildInv
  <2>3. CASE OpenFile(i)
    <3>1. /\ UNCHANGED stdout
          /\ file_desc' \in {file_desc, [file_desc EXCEPT ![i] = "open"]}
          /\ \/ child' = [child EXCEPT ![i] = "dup2"]
             \/ child' = [child EXCEPT ![i] = "zombie"]
      BY <2>3 DEF OpenFile, Terminate
    <3>2. DOMAIN file_desc' = Calls /\ \A j \in Calls \ {i} : file_desc'[j] = file_desc[j]
      BY <3>1 DEF ChildInv
    <3>. QED  BY <2>2, <3>1, <3>2 DEF ChildInv
  <2>4. CASE Dup2(i)
    <3>1. /\ file_desc' = [file_desc EXCEPT ![i] = "closed"]
          /\ \/ /\ stdout' = [stdout EXCEPT ![i] = "file"]
                /\ child' = [child EXCEPT ![i] = "execv"]
             \/ UNCHANGED stdout /\ child' = [child EXCEPT ![i] = "zombie"]
      BY <2>4 DEF Dup2, Dup2Fails, Terminate
    <3>2. /\ file_desc'[i] = "closed" /\ DOMAIN stdout' = Calls /\ DOMAIN file_desc' = Calls
          /\ \A j \in Calls \ {i} : stdout'[j] = stdout[j] /\ file_desc'[j] = file_desc[j]
      BY <3>1 DEF ChildInv
    <3>3. stdout' = [stdout EXCEPT ![i] = "file"] => stdout'[i] = "file"
      BY DEF ChildInv
    <3>4. CASE stdout' = [stdout EXCEPT ![i] = "file"] /\ child' = [child EXCEPT ![i] = "execv"]
      BY <2>2, <3>2, <3>3, <3>4
    <3>5. CASE UNCHANGED stdout /\ child' = [child EXCEPT ![i] = "zombie"]
      BY <2>2, <3>2, <3>5
    <3>. QED  BY <3>1, <3>4, <3>5
  <2>5. CASE Execv(i)
    <3>1. /\ child[i] = "execv" /\ UNCHANGED <<stdout, file_desc>>
          /\ \/ child' = [child EXCEPT ![i] = "command"]
             \/ child' = [child EXCEPT ![i] = "zombie"]
      BY <2>5 DEF Execv, Terminate
    <3>2. fn[i] = "do_exec_redirect" => stdout'[i] = "file" /\ file_desc'[i] = "closed"
      BY <3>1 DEF ChildInv
    <3>. QED  BY <2>2, <3>1, <3>2 DEF ChildInv
  <2>6. CASE Command(i)
    BY <2>2, <2>6 DEF Command, Terminate, ChildInv
  <2>. QED  BY <1>6, <2>3, <2>4, <2>5, <2>6 DEF Child
<1>. QED  BY <1>1, <1>2, <1>3, <1>4, <1>5, <1>6 DEF Next, Caller

(***************************************************************************)
(* No command runs under do_exec_redirect with the caller's output, or     *)
(* with a second descriptor of the file: every failure on the way to execv *)
(* ends the child.                                                         *)
(***************************************************************************)
THEOREM OutputIsRedirected == Spec => []OutputRedirected
<1>1. Init => ChildInv
  BY DEF Init, ChildInv
<1>2. ChildInv => OutputRedirected
  BY DEF ChildInv, OutputRedirected
<1>. QED  BY <1>1, <1>2, ChildStep, PTL DEF Spec

-----------------------------------------------------------------------------
(* The threads.                                                            *)

(* Who is between the lock and the unlock of threadfunc has the mutex.     *)
HolderInv == /\ DOMAIN tpc = Thread
             /\ \A t \in Thread : tpc[t] = "hold" => mutex = t

OneHolds == \A t, u \in Thread : tpc[t] = "hold" /\ tpc[u] = "hold" => t = u

(***************************************************************************)
(* Two threads are never both between the lock and the unlock, although    *)
(* either may fail and the thread go on (threadfunc).                      *)
(***************************************************************************)
THEOREM OneThreadHolds == Threads!Spec => []OneHolds
<1>1. Threads!Init => HolderInv
  BY DEF Threads!Init, HolderInv
<1>2. HolderInv /\ [Threads!Next]_(Threads!vars) => HolderInv'
  <2>. SUFFICES ASSUME HolderInv, [Threads!Next]_(Threads!vars) PROVE HolderInv'
    OBVIOUS
  <2>. USE DEF HolderInv, Threads!Goto
  <2>1. ASSUME NEW t \in Thread, Threads!Start(t) \/ Threads!Join(t) PROVE HolderInv'
    BY <2>1 DEF Threads!Start, Threads!Join, Threads!NoMemory, Threads!NoThread, Threads!Started
  <2>2. ASSUME NEW t \in Thread, Threads!Lock(t) PROVE HolderInv'
    BY <2>2, NobodyAssumption DEF Threads!Lock
  <2>3. ASSUME NEW t \in Thread, Threads!LockFails(t) PROVE HolderInv'
    BY <2>3 DEF Threads!LockFails
  <2>4. ASSUME NEW t \in Thread, Threads!Unlock(t) \/ Threads!UnlockFails(t) PROVE HolderInv'
    BY <2>4 DEF Threads!Unlock, Threads!UnlockFails
  <2>5. CASE UNCHANGED Threads!vars
    BY <2>5 DEF Threads!vars
  <2>. QED  BY <2>1, <2>2, <2>3, <2>4, <2>5 DEF Threads!Next, Threads!threadfunc
<1>3. HolderInv => OneHolds
  BY DEF HolderInv, OneHolds
<1>. QED  BY <1>1, <1>2, <1>3, PTL DEF Threads!Spec
=============================================================================
