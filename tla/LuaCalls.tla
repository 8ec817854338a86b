------------------------------ MODULE LuaCalls ------------------------------
(* What ldo.c promises about calls from C into Lua, whatever program runs:   *)
(* protected and other calls, coroutines that resume and give way to each    *)
(* other, and errors that cut all of this short.  Instructions, values and   *)
(* the stacks of the threads are left out; LuaVM implements this.            *)
EXTENDS Naturals, Sequences, FiniteSets, SequencesExt, LuaLimits

CONSTANTS main, Coroutines
Threads == {main} \cup Coroutines

VARIABLES
  L,          \* the running thread
  status,     \* of a thread: "ok", "yield" or "dead", and
  begun,      \* whether a function is in progress
  nCcalls,    \* nested C calls of a thread, and
  baseCcalls, \* those when it was resumed last
  stack,      \* the calls from C into Lua that have not returned, see Frame
  err         \* the error that is being raised

vars == <<L, status, begun, nCcalls, baseCcalls, stack, err>>

\* luaG_errormsg is due, which asks the error function first; or a longjmp
Errors == {"ERRMSG", "ERRRUN", "ERRSYNTAX", "ERRERR"}
Limit  == LUAI_MAXCCALLS + LUAI_MAXCCALLS \div 8

\* luaD_call; luaD_pcall, with what it restores; lua_resume, with the thread that waits
Frame == [k : {"call"}] \cup [k : {"pcall"}, nCcalls : Nat] \cup [k : {"resume"}, from : Threads]

TypeOK ==
  /\ L \in Threads
  /\ status \in [Threads -> {"ok", "yield", "dead"}]
  /\ begun \in [Threads -> BOOLEAN]
  /\ nCcalls \in [Threads -> Nat] /\ baseCcalls \in [Threads -> Nat]
  /\ stack \in Seq(Frame)
  /\ err \in Errors \cup {""}

call     == [k |-> "call"]
pcall(n) == [k |-> "pcall", nCcalls |-> n]

\* luaD_call at depth n has come this far
Entered(n) ==
  err' \in CASE n = LUAI_MAXCCALLS -> {"ERRMSG"}
             [] n # LUAI_MAXCCALLS /\ n >= Limit -> {"ERRERR"}
             [] OTHER -> Errors \cup {""}

\* The host has loaded a script and calls it, if it could be compiled.
Init ==
  /\ L = main
  /\ status = [t \in Threads |-> "ok"]
  /\ begun \in {[t \in Threads |-> t = main /\ b] : b \in BOOLEAN}
  /\ baseCcalls = [t \in Threads |-> 0]
  /\ \/ /\ stack = <<>> /\ err = ""
        /\ nCcalls = [t \in Threads |-> 0]
     \/ /\ stack = <<pcall(0), call>> /\ err \in Errors \cup {""}
        /\ nCcalls = [t \in Threads |-> IF t = main THEN 1 ELSE 0]

-----------------------------------------------------------------------------
Top == Last(stack)

\* The running thread is in a function; none is raising an error.
Runs == stack # <<>> /\ Top.k # "pcall" /\ status[L] = "ok" /\ err \in {"", "ERRMSG"}

\* The function in progress calls, returns or fails within luaV_execute.
MayBegin(t) == \E b \in BOOLEAN : begun' = [begun EXCEPT ![t] = b]
Step ==
  /\ Runs
  /\ err' \in IF err = "" THEN Errors \cup {""} ELSE {"ERRRUN", "ERRERR"}
  /\ MayBegin(L)
  /\ UNCHANGED <<L, status, nCcalls, baseCcalls, stack>>

Deeper == nCcalls' = [nCcalls EXCEPT ![L] = @ + 1] /\ Entered(nCcalls[L] + 1) /\ MayBegin(L)

\* by an instruction, a C function, or luaG_errormsg
luaD_call ==
  /\ Runs
  /\ stack' = Append(stack, call) /\ Deeper
  /\ UNCHANGED <<L, status, baseCcalls>>

luaD_pcall ==
  /\ Runs /\ err = ""
  /\ stack' = stack \o <<pcall(nCcalls[L]), call>> /\ Deeper
  /\ UNCHANGED <<L, status, baseCcalls>>

Returns(k) == stack # <<>> /\ Top.k = k /\ err = "" /\ stack' = Front(stack) /\ UNCHANGED <<begun, err>>

CallReturns ==
  /\ Returns("call")
  /\ nCcalls' = [nCcalls EXCEPT ![L] = @ - 1]
  /\ UNCHANGED <<L, status, baseCcalls>>

PcallReturns == Returns("pcall") /\ UNCHANGED <<L, status, nCcalls, baseCcalls>>

-----------------------------------------------------------------------------
\* lua_resume
Suspended(t) == status[t] = "yield" \/ (status[t] = "ok" /\ ~begun[t])

lua_resume(co) ==
  /\ Runs /\ err = "" /\ begun[L] /\ Suspended(co)
  /\ nCcalls[L] < LUAI_MAXCCALLS
  /\ stack' = Append(stack, [k |-> "resume", from |-> L]) /\ L' = co
  /\ nCcalls' = [nCcalls EXCEPT ![co] = nCcalls[L] + 1]
  /\ baseCcalls' = [baseCcalls EXCEPT ![co] = nCcalls[L] + 1]
  /\ status' = [status EXCEPT ![co] = "ok"]
  /\ MayBegin(co) /\ err' \in Errors \cup {""}

\* "C stack overflow"; lua_setlevel was before it
ResumeFails(co) ==
  /\ Runs /\ err = "" /\ begun[L] /\ Suspended(co)
  /\ nCcalls[L] >= LUAI_MAXCCALLS
  /\ nCcalls' = [nCcalls EXCEPT ![co] = nCcalls[L]]
  /\ UNCHANGED <<L, status, begun, baseCcalls, stack, err>>

lua_yield ==
  /\ Runs /\ err = "" /\ begun[L]
  /\ ~(nCcalls[L] > baseCcalls[L])
  /\ status' = [status EXCEPT ![L] = "yield"]
  /\ UNCHANGED <<L, begun, nCcalls, baseCcalls, stack, err>>

\* back to the thread that called lua_resume
Leaves(fr) == L' = fr.from /\ nCcalls' = [nCcalls EXCEPT ![L] = @ - 1]

ResumeReturns == Returns("resume") /\ Leaves(Top) /\ UNCHANGED <<status, baseCcalls>>

-----------------------------------------------------------------------------
\* luaD_rawrunprotected: the last luaD_pcall or lua_resume has its longjmp, and every
\* call after it is given up.
Handler(at) == stack[at].k # "call" /\ \A i \in at + 1 .. Len(stack) : stack[i].k = "call"

Caught(fr) ==
  /\ fr.k = "pcall"
  /\ nCcalls' = [nCcalls EXCEPT ![L] = fr.nCcalls]
  /\ MayBegin(L) /\ UNCHANGED <<L, status>>

Dies(fr) ==
  /\ fr.k = "resume"
  /\ Leaves(fr) /\ status' = [status EXCEPT ![L] = "dead"]
  /\ UNCHANGED begun

Unwind ==
  /\ err \in Errors \ {"ERRMSG"}
  /\ \E at \in DOMAIN stack :
       /\ Handler(at)
       /\ stack' = SubSeq(stack, 1, at - 1)
       /\ Caught(stack[at]) \/ Dies(stack[at])
  /\ err' = "" /\ UNCHANGED baseCcalls

Next ==
  \/ Step \/ luaD_call \/ luaD_pcall \/ CallReturns \/ PcallReturns
  \/ \E co \in Threads : lua_resume(co) \/ ResumeFails(co)
  \/ lua_yield \/ ResumeReturns \/ Unwind

Spec == Init /\ [][Next]_vars

-----------------------------------------------------------------------------
(* Properties                                                              *)

\* nCcalls of the running thread is the number of calls and resumes on the C stack,
\* through errors, yields and handlers (luaD_call, luaD_pcall, lua_resume), and bounded.
CcallsCounted ==
  /\ nCcalls[L] = Cardinality({i \in DOMAIN stack : stack[i].k \in {"call", "resume"}})
  /\ nCcalls[L] <= Limit

\* The threads that wait for a coroutine are chained by lua_resume: none waits twice or
\* runs, none is suspended or dead, and the main thread is at the end.
Resumes == {i \in DOMAIN stack : stack[i].k = "resume"}
ResumeChain ==
  /\ \A i \in Resumes : LET t == stack[i].from IN
       /\ t # L /\ status[t] = "ok" /\ begun[t]
       /\ \A j \in Resumes : j # i => stack[j].from # t
  /\ Resumes = {} => L = main
  /\ \A i \in Resumes : (\A j \in Resumes : i <= j) => stack[i].from = main

\* A coroutine that has given way waits for no call from C, protected or not: the C
\* stack above its lua_resume is empty, and a longjmp is not needed to leave it
\* (lua_yield, "attempt to yield across metamethod/C-call boundary").
YieldsToResume == status[L] = "yield" => stack # <<>> /\ Top.k = "resume"

\* ldo.c:434, lua_assert(L->nCcalls == L->baseCcalls)
LeavesAsEntered == stack # <<>> /\ Top.k = "resume" => nCcalls[L] = baseCcalls[L]

\* A coroutine that died of an error is never resumed: its status is no longer changed
\* (lua_resume, "cannot resume non-suspended coroutine").
DeadForGood == [][\A t \in Threads : status[t] = "dead" => status'[t] = "dead" /\ L' # t]_vars
=============================================================================
