------------------------------ MODULE Libpostal -------------------------------
(***************************************************************************)
(* Calling the C library libpostal, which is not thread safe, from many    *)
(* threads: `parse_address` and `expand_address` of                        *)
(* src/crates/libpostal-rust/src/lib.rs under the GLOBAL_LOCK of           *)
(* src/crates/libpostal-sys/src/lib.rs, with the lazy initialization of    *)
(* init.rs.  A panic while the lock is held poisons it for good.           *)
(***************************************************************************)
EXTENDS Integers, FiniteSets

CONSTANTS
    Threads,
    Nobody  \* holder of a free lock

ASSUME ThreadAssumption == Nobody \notin Threads

Components == {"base", "parser", "classifier"}

\* What each function initializes before it calls C.
Functions == {"parse", "expand"}
Second == [parse |-> "parser", expand |-> "classifier"]
Needs(f) == {"base", Second[f]}

VARIABLES
    lock,       \* the thread in GLOBAL_LOCK
    poisoned,   \* the mutex is poisoned
    state,      \* `InitializationState`: the components it says are initialized
    dataDir,    \* DATA_DIRECTORY, whether the data were found and remembered
    setUp,      \* the C library: how often each component was set up
    inC,        \* the C library: the threads executing in it
    pc,         \* per thread
    calling,    \* per thread: the function it is in
    last        \* per thread: how its last call ended

vars == <<lock, poisoned, state, dataDir, setUp, inC, pc, calling, last>>

Init ==
    /\ lock = Nobody /\ poisoned = FALSE
    /\ state = {} /\ dataDir = FALSE
    /\ setUp = [k \in Components |-> 0]
    /\ inC = {}
    /\ pc = [t \in Threads |-> "idle"]
    /\ calling \in [Threads -> Functions]
    /\ last = [t \in Threads |-> "none"]

-------------------------------------------------------------------------------
\* The steps of a thread t in one call.

Call(t, f) ==
    /\ pc[t] = "idle"
    /\ pc' = [pc EXCEPT ![t] = "locking"]
    /\ calling' = [calling EXCEPT ![t] = f]
    /\ UNCHANGED <<lock, poisoned, state, dataDir, setUp, inC, last>>

\* Faulty: nothing is locked.
FaultyNoLock(t) ==
    /\ pc[t] = "locking" /\ ~poisoned
    /\ lock' = t
    /\ pc' = [pc EXCEPT ![t] = "init"]
    /\ UNCHANGED <<poisoned, state, dataDir, setUp, inC, calling, last>>

\* Faulty: a poisoned lock is taken all the same.
FaultyIgnorePoison(t) ==
    /\ pc[t] = "locking" /\ lock = Nobody
    /\ lock' = t
    /\ pc' = [pc EXCEPT ![t] = "init"]
    /\ UNCHANGED <<poisoned, state, dataDir, setUp, inC, calling, last>>

\* `lock().expect("mutex poisoned")`.
Lock(t) ==
    /\ pc[t] = "locking" /\ lock = Nobody /\ ~poisoned
    /\ lock' = t
    /\ pc' = [pc EXCEPT ![t] = "init"]
    /\ UNCHANGED <<poisoned, state, dataDir, setUp, inC, calling, last>>

LockPoisoned(t) ==
    /\ pc[t] = "locking" /\ lock = Nobody /\ poisoned
    /\ pc' = [pc EXCEPT ![t] = "idle"]
    /\ last' = [last EXCEPT ![t] = "panic"]
    /\ UNCHANGED <<lock, poisoned, state, dataDir, setUp, inC, calling>>

\* Faulty: an error leaves the lock taken.
FaultyLeave(t, how) ==
    /\ lock' = IF how = "err" THEN lock ELSE Nobody
    /\ poisoned' = (poisoned \/ how = "panic")
    /\ pc' = [pc EXCEPT ![t] = "idle"]
    /\ last' = [last EXCEPT ![t] = how]

\* The guard is dropped; when a panic unwinds through it, it poisons the lock.
Leave(t, how) ==
    /\ lock' = Nobody
    /\ poisoned' = (poisoned \/ how = "panic")
    /\ pc' = [pc EXCEPT ![t] = "idle"]
    /\ last' = [last EXCEPT ![t] = how]

\* The component that is initialized next: the base, then the function's own.
Missing(t) == Needs(calling[t]) \ state
FaultyUninitialized(t) == calling[t]   \* Faulty: the function's name, not the component's
Uninitialized(t) == IF "base" \in Missing(t) THEN "base" ELSE Second[calling[t]]

\* `probe_data_directory` finds no data and did not before.
ProbeFails(t) ==
    /\ pc[t] = "init" /\ Missing(t) # {} /\ ~dataDir
    /\ Leave(t, "err")
    /\ UNCHANGED <<state, dataDir, setUp, inC, calling>>

EnterSetup(t) ==
    /\ pc[t] = "init" /\ Missing(t) # {}
    /\ dataDir' = TRUE
    /\ inC' = inC \cup {t}
    /\ pc' = [pc EXCEPT ![t] = "setup"]
    /\ UNCHANGED <<lock, poisoned, state, setUp, calling, last>>

\* Faulty: the component is not marked as initialized.
FaultySetupSucceeds(t) ==
    /\ pc[t] = "setup"
    /\ setUp' = [setUp EXCEPT ![Uninitialized(t)] = @ + 1]
    /\ inC' = inC \ {t}
    /\ pc' = [pc EXCEPT ![t] = "init"]
    /\ UNCHANGED <<lock, poisoned, state, dataDir, calling, last>>

SetupSucceeds(t) ==
    /\ pc[t] = "setup"
    /\ setUp' = [setUp EXCEPT ![Uninitialized(t)] = @ + 1]
    /\ state' = state \cup {Uninitialized(t)}
    /\ inC' = inC \ {t}
    /\ pc' = [pc EXCEPT ![t] = "init"]
    /\ UNCHANGED <<lock, poisoned, dataDir, calling, last>>

SetupFails(t) ==
    /\ pc[t] = "setup"
    /\ inC' = inC \ {t}
    /\ Leave(t, "err")
    /\ UNCHANGED <<state, dataDir, setUp, calling>>

\* Faulty: only the base is waited for.
FaultyReady(t) == pc[t] = "init" /\ "base" \in state
Ready(t) == pc[t] = "init" /\ Missing(t) = {}

\* The address has a NUL byte: `CString::new` fails.
NulByte(t) ==
    /\ Ready(t)
    /\ Leave(t, "err")
    /\ UNCHANGED <<state, dataDir, setUp, inC, calling>>

EnterC(t) ==
    /\ Ready(t)
    /\ inC' = inC \cup {t}
    /\ pc' = [pc EXCEPT ![t] = "work"]
    /\ UNCHANGED <<lock, poisoned, state, dataDir, setUp, calling, last>>

\* The response is read and destroyed.
ExitC(t) ==
    /\ pc[t] = "work"
    /\ inC' = inC \ {t}
    /\ Leave(t, "ok")
    /\ UNCHANGED <<state, dataDir, setUp, calling>>

\* The response is not UTF-8: `expect` panics with the lock held.
BadUtf8(t) ==
    /\ pc[t] = "work"
    /\ inC' = inC \ {t}
    /\ Leave(t, "panic")
    /\ UNCHANGED <<state, dataDir, setUp, calling>>

InCall(t) ==
    \/ Lock(t) \/ LockPoisoned(t) \/ ProbeFails(t) \/ EnterSetup(t)
    \/ SetupSucceeds(t) \/ SetupFails(t) \/ NulByte(t) \/ EnterC(t) \/ ExitC(t)
    \/ BadUtf8(t)

Next == \E t \in Threads : InCall(t) \/ \E f \in Functions : Call(t, f)

Spec == Init /\ [][Next]_vars

\* C returns, and a thread waiting for the lock gets it in the end: strong
\* fairness, because others take it meanwhile.
Fairness == \A t \in Threads : SF_vars(InCall(t))
FairSpec == Spec /\ Fairness

-------------------------------------------------------------------------------
\* Properties.

TypeOK ==
    /\ lock \in Threads \cup {Nobody}
    /\ poisoned \in BOOLEAN
    /\ state \subseteq Components /\ dataDir \in BOOLEAN
    /\ setUp \in [Components -> Nat]
    /\ inC \subseteq Threads
    /\ pc \in [Threads -> {"idle", "locking", "init", "setup", "work"}]
    /\ calling \in [Threads -> Functions]
    /\ last \in [Threads -> {"none", "ok", "err", "panic"}]

\* "You _must_ take this lock before doing _anything_ with this library. libpostal
\* is not thread safe": at most one thread is in C, and it has the lock.
OneThreadInC == inC \subseteq {lock}

\* Each component is set up at most once and is marked exactly when it is, also
\* after set-ups that failed half-way, errors and panics (init.rs lines 31-38).
SetUpOnce ==
    \A k \in Components : setUp[k] = IF k \in state THEN 1 ELSE 0

\* A function of the library runs only on components that are set up.
ReadyInC == \A t \in Threads : pc[t] = "work" => \A k \in Needs(calling[t]) : setUp[k] = 1

\* After a panic with the lock held no call gets anywhere: each ends in a panic.
\* In server mode, where a panic ends one request only, all later ones fail.
PoisonedForGood ==
    [][poisoned => /\ poisoned'
                   /\ \A t \in Threads : pc[t] # "idle" /\ pc'[t] = "idle" => last'[t] = "panic"
                   /\ inC' = {}]_vars

\* Every call ends: nothing leaves the lock taken.
CallsReturn == \A t \in Threads : pc[t] # "idle" ~> pc[t] = "idle"
==============================================================================
