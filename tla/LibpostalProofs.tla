---------------------------- MODULE LibpostalProofs ----------------------------
(***************************************************************************)
(* Proofs about Libpostal, for any number of threads: the lock keeps all   *)
(* but one thread out of C, components are set up once and before they are *)
(* used, and a poisoned lock stays poisoned.                               *)
(***************************************************************************)
EXTENDS Libpostal, TLAPS

\* The thread with the lock is the one between taking and leaving it.
Holds(t) == pc[t] \in {"init", "setup", "work"}
LockHeld == \A t \in Threads : Holds(t) <=> lock = t

\* C is entered for a set-up or for the function itself.
WhoIsInC == inC = {t \in Threads : pc[t] \in {"setup", "work"}}

\* What a thread in C does there: a component is missing, or none is.
WhatItDoes ==
    \A t \in Threads :
        /\ pc[t] = "setup" => Missing(t) # {}
        /\ pc[t] = "work" => Missing(t) = {}

\* A thread that panics leaves, and nobody comes after it.
NobodyAfterPanic == poisoned => lock = Nobody

IInv ==
    /\ TypeOK
    /\ LockHeld
    /\ WhoIsInC
    /\ SetUpOnce
    /\ WhatItDoes
    /\ NobodyAfterPanic

LEMMA ComponentFacts ==
    ASSUME NEW f \in Functions
    PROVE  /\ Needs(f) = {"base", Second[f]}
           /\ Second[f] \in {"parser", "classifier"}
           /\ Needs(f) \subseteq Components
BY DEF Functions, Needs, Second, Components

LEMMA InitInv == Init => IInv
<1> SUFFICES ASSUME Init PROVE IInv
  OBVIOUS
<1> USE DEF Init
<1>1. TypeOK
  BY DEF TypeOK, Components
<1>2. LockHeld
  BY ThreadAssumption DEF LockHeld, Holds
<1>3. WhoIsInC
  BY DEF WhoIsInC
<1>4. SetUpOnce
  BY DEF SetUpOnce
<1>5. WhatItDoes
  BY DEF WhatItDoes
<1>6. NobodyAfterPanic
  BY DEF NobodyAfterPanic
<1> QED
  BY <1>1, <1>2, <1>3, <1>4, <1>5, <1>6 DEF IInv

\* A thread that leaves the lock, with the effect on C of one that was not there.
LEMMA LeaveInv ==
    ASSUME IInv, NEW t \in Threads, Holds(t), NEW how \in {"ok", "err", "panic"},
           Leave(t, how), inC' = inC \ {t},
           UNCHANGED <<state, setUp, calling>>, dataDir' \in BOOLEAN
    PROVE  IInv'
<1> USE DEF IInv, Leave
<1>1. lock = t
  BY DEF LockHeld
<1>2. TypeOK'
  BY DEF TypeOK
<1>3. \A u \in Threads \ {t} : ~Holds(u) /\ pc'[u] = pc[u]
  BY <1>1 DEF LockHeld, TypeOK
<1>4. pc'[t] = "idle"
  BY DEF TypeOK
<1>5. LockHeld'
  BY <1>3, <1>4, ThreadAssumption DEF LockHeld, Holds
<1>6. WhoIsInC'
  BY <1>3, <1>4 DEF WhoIsInC, Holds
<1>7. SetUpOnce'
  BY DEF SetUpOnce
<1>8. WhatItDoes'
  BY <1>3, <1>4 DEF WhatItDoes, Holds
<1>9. NobodyAfterPanic'
  BY DEF NobodyAfterPanic
<1> QED
  BY <1>2, <1>5, <1>6, <1>7, <1>8, <1>9

\* The other threads neither hold the lock nor move.
LEMMA OthersStay ==
    ASSUME IInv, NEW t \in Threads, Holds(t), NEW where,
           pc' = [pc EXCEPT ![t] = where]
    PROVE  /\ lock = t /\ ~poisoned
           /\ pc'[t] = where
           /\ \A u \in Threads \ {t} : ~Holds(u) /\ pc'[u] = pc[u]
BY ThreadAssumption DEF IInv, LockHeld, TypeOK, NobodyAfterPanic

LEMMA CallInv ==
    ASSUME IInv, NEW t \in Threads, NEW f \in Functions, Call(t, f)
    PROVE  IInv'
<1> USE DEF IInv, Call
<1>1. TypeOK'
  BY DEF TypeOK
<1>2. LockHeld'
  BY DEF LockHeld, Holds, TypeOK
<1>3. WhoIsInC'
  BY DEF WhoIsInC, TypeOK
<1>4. SetUpOnce'
  BY DEF SetUpOnce
<1>5. WhatItDoes'
  <2> SUFFICES ASSUME NEW u \in Threads, pc'[u] \in {"setup", "work"}
               PROVE  pc'[u] = pc[u] /\ Missing(u)' = Missing(u)
    BY DEF WhatItDoes
  <2> QED
    BY DEF Missing, TypeOK
<1>6. NobodyAfterPanic'
  BY DEF NobodyAfterPanic
<1> QED
  BY <1>1, <1>2, <1>3, <1>4, <1>5, <1>6

LEMMA LockInv ==
    ASSUME IInv, NEW t \in Threads, Lock(t)
    PROVE  IInv'
<1> USE DEF IInv, Lock
<1>1. TypeOK'
  BY DEF TypeOK
<1>2. LockHeld'
  BY ThreadAssumption DEF LockHeld, Holds, TypeOK
<1>3. WhoIsInC'
  BY DEF WhoIsInC, TypeOK
<1>4. SetUpOnce'
  BY DEF SetUpOnce
<1>5. WhatItDoes'
  BY DEF WhatItDoes, Missing, TypeOK
<1>6. NobodyAfterPanic'
  BY DEF NobodyAfterPanic
<1> QED
  BY <1>1, <1>2, <1>3, <1>4, <1>5, <1>6

LEMMA LockPoisonedInv ==
    ASSUME IInv, NEW t \in Threads, LockPoisoned(t)
    PROVE  IInv'
<1> USE DEF IInv, LockPoisoned
<1>1. TypeOK'
  BY DEF TypeOK
<1>2. LockHeld'
  BY DEF LockHeld, Holds, TypeOK
<1>3. WhoIsInC'
  BY DEF WhoIsInC, TypeOK
<1>4. SetUpOnce'
  BY DEF SetUpOnce
<1>5. WhatItDoes'
  BY DEF WhatItDoes, Missing, TypeOK
<1>6. NobodyAfterPanic'
  BY DEF NobodyAfterPanic
<1> QED
  BY <1>1, <1>2, <1>3, <1>4, <1>5, <1>6

LEMMA EnterSetupInv ==
    ASSUME IInv, NEW t \in Threads, EnterSetup(t)
    PROVE  IInv'
<1> USE DEF IInv, EnterSetup
<1>1. TypeOK'
  BY DEF TypeOK
<1>2. /\ lock = t /\ pc'[t] = "setup"
      /\ \A u \in Threads \ {t} : ~Holds(u) /\ pc'[u] = pc[u]
  BY OthersStay DEF Holds
<1>3. LockHeld'
  BY <1>2 DEF LockHeld, Holds
<1>4. WhoIsInC'
  BY <1>2 DEF WhoIsInC, Holds
<1>5. SetUpOnce'
  BY DEF SetUpOnce
<1>6. WhatItDoes'
  BY <1>2 DEF WhatItDoes, Missing, Holds
<1>7. NobodyAfterPanic'
  BY DEF NobodyAfterPanic
<1> QED
  BY <1>1, <1>3, <1>4, <1>5, <1>6, <1>7

\* What is missing is set up, and it was not before.
LEMMA SetupSucceedsInv ==
    ASSUME IInv, NEW t \in Threads, SetupSucceeds(t)
    PROVE  IInv'
<1> USE DEF IInv, SetupSucceeds
<1>1. /\ lock = t /\ pc'[t] = "init"
      /\ \A u \in Threads \ {t} : ~Holds(u) /\ pc'[u] = pc[u]
  BY OthersStay DEF Holds
<1>2. Missing(t) # {} /\ calling[t] \in Functions
  BY DEF WhatItDoes, TypeOK
<1>3. Uninitialized(t) \in Components \ state
  BY <1>2, ComponentFacts DEF Uninitialized, Missing
<1>4. TypeOK'
  BY <1>3 DEF TypeOK
<1>5. LockHeld'
  BY <1>1 DEF LockHeld, Holds
<1>6. WhoIsInC'
  BY <1>1 DEF WhoIsInC, Holds
<1>7. SetUpOnce'
  BY <1>3 DEF SetUpOnce, TypeOK
<1>8. WhatItDoes'
  BY <1>1 DEF WhatItDoes, Missing, Holds
<1>9. NobodyAfterPanic'
  BY DEF NobodyAfterPanic
<1> QED
  BY <1>4, <1>5, <1>6, <1>7, <1>8, <1>9

LEMMA EnterCInv ==
    ASSUME IInv, NEW t \in Threads, EnterC(t)
    PROVE  IInv'
<1> USE DEF IInv, EnterC, Ready
<1>1. TypeOK'
  BY DEF TypeOK
<1>2. /\ lock = t /\ pc'[t] = "work"
      /\ \A u \in Threads \ {t} : ~Holds(u) /\ pc'[u] = pc[u]
  BY OthersStay DEF Holds
<1>3. LockHeld'
  BY <1>2 DEF LockHeld, Holds
<1>4. WhoIsInC'
  BY <1>2 DEF WhoIsInC, Holds
<1>5. SetUpOnce'
  BY DEF SetUpOnce
<1>6. WhatItDoes'
  BY <1>2 DEF WhatItDoes, Missing, Holds
<1>7. NobodyAfterPanic'
  BY DEF NobodyAfterPanic
<1> QED
  BY <1>1, <1>3, <1>4, <1>5, <1>6, <1>7

LEMMA NextInv == IInv /\ [Next]_vars => IInv'
<1> SUFFICES ASSUME IInv, [Next]_vars PROVE IInv'
  OBVIOUS
<1>1. CASE UNCHANGED vars
  BY <1>1 DEF vars, IInv, TypeOK, LockHeld, Holds, WhoIsInC, SetUpOnce, WhatItDoes,
     Missing, NobodyAfterPanic
<1>2. CASE Next
  <2>1. PICK t \in Threads : InCall(t) \/ \E f \in Functions : Call(t, f)
    BY <1>2 DEF Next
  <2>2. ASSUME NEW f \in Functions, Call(t, f) PROVE IInv'
    BY <2>2, CallInv
  <2>3. CASE Lock(t)
    BY <2>3, LockInv
  <2>4. CASE LockPoisoned(t)
    BY <2>4, LockPoisonedInv
  <2>5. ASSUME pc[t] \in {"init", "setup", "work"}, NEW how \in {"ok", "err", "panic"},
               Leave(t, how), inC' = inC \ {t}, UNCHANGED <<state, dataDir, setUp, calling>>
        PROVE  IInv'
    BY <2>5, LeaveInv DEF Holds, IInv, TypeOK
  <2>6. pc[t] = "init" => inC = inC \ {t}
    BY DEF IInv, WhoIsInC
  <2>7. CASE ProbeFails(t) \/ NulByte(t)
    BY <2>5, <2>6, <2>7 DEF ProbeFails, NulByte, Ready
  <2>8. CASE SetupFails(t) \/ ExitC(t) \/ BadUtf8(t)
    BY <2>5, <2>8 DEF SetupFails, ExitC, BadUtf8
  <2>9. CASE EnterSetup(t)
    BY <2>9, EnterSetupInv
  <2>10. CASE SetupSucceeds(t)
    BY <2>10, SetupSucceedsInv
  <2>11. CASE EnterC(t)
    BY <2>11, EnterCInv
  <2> QED
    BY <2>1, <2>2, <2>3, <2>4, <2>7, <2>8, <2>9, <2>10, <2>11 DEF InCall
<1> QED
  BY <1>1, <1>2

LEMMA Invariance == Spec => []IInv
BY InitInv, NextInv, PTL DEF Spec

-------------------------------------------------------------------------------

\* The variables of the lock, the library and the threads have the values that
\* init.rs and lib.rs give them.
THEOREM TypesOK == Spec => []TypeOK
<1>1. IInv => TypeOK
  BY DEF IInv
<1> QED
  BY <1>1, Invariance, PTL

\* GLOBAL_LOCK keeps all threads but its holder out of C.
THEOREM Exclusion == Spec => []OneThreadInC
<1>1. IInv => OneThreadInC
  BY DEF IInv, OneThreadInC, WhoIsInC, LockHeld, Holds
<1> QED
  BY <1>1, Invariance, PTL

\* The lazy initialization of init.rs sets up each component once at most, and
\* remembers just what it has set up.
THEOREM SetUpOnceOnly == Spec => []SetUpOnce
<1>1. IInv => SetUpOnce
  BY DEF IInv
<1> QED
  BY <1>1, Invariance, PTL

\* Whatever a function of the library needs was set up before it runs.
THEOREM SetUpBeforeUse == Spec => []ReadyInC
<1>1. IInv => ReadyInC
  <2> SUFFICES ASSUME IInv, NEW t \in Threads, pc[t] = "work",
                      NEW k \in Needs(calling[t])
               PROVE  setUp[k] = 1
    BY DEF ReadyInC
  <2>1. k \in state
    BY DEF IInv, WhatItDoes, Missing
  <2>2. k \in Components
    BY <2>1 DEF IInv, TypeOK
  <2> QED
    BY <2>1, <2>2 DEF IInv, SetUpOnce
<1> QED
  BY <1>1, Invariance, PTL

\* Once a call has panicked with the lock held, the lock is poisoned for good: no
\* thread enters C again, and every call that ends, ends in a panic.
THEOREM PoisonLasts == Spec => PoisonedForGood
<1> DEFINE Poisoned ==
        poisoned => /\ poisoned'
                    /\ \A t \in Threads : pc[t] # "idle" /\ pc'[t] = "idle" => last'[t] = "panic"
                    /\ inC' = {}
<1>1. IInv /\ [Next]_vars => [Poisoned]_vars
  <2> SUFFICES ASSUME IInv, Next, poisoned PROVE Poisoned
    BY DEF Poisoned
  <2>1. \A t \in Threads : ~Holds(t)
    BY ThreadAssumption DEF IInv, LockHeld, NobodyAfterPanic
  <2>2. inC = {}
    BY <2>1 DEF IInv, WhoIsInC, Holds
  <2>3. PICK t \in Threads : InCall(t) \/ \E f \in Functions : Call(t, f)
    BY DEF Next
  <2>4. LockPoisoned(t) \/ \E f \in Functions : Call(t, f)
    BY <2>1, <2>3 DEF InCall, Holds, Lock, ProbeFails, EnterSetup, SetupSucceeds,
       SetupFails, NulByte, Ready, EnterC, ExitC, BadUtf8
  <2>5. CASE LockPoisoned(t)
    BY <2>2, <2>5 DEF LockPoisoned, IInv, TypeOK
  <2>6. ASSUME NEW f \in Functions, Call(t, f) PROVE Poisoned
    BY <2>2, <2>6 DEF Call, IInv, TypeOK
  <2> QED
    BY <2>4, <2>5, <2>6
<1> QED
  BY <1>1, Invariance, PTL DEF Spec, PoisonedForGood
===============================================================================
