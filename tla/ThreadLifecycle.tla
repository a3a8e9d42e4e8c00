-------------------------- MODULE ThreadLifecycle --------------------------
(***************************************************************************)
(* How libpg_query sets up and tears down its per-thread state             *)
(* (src/pg_query.c: pg_query_init, pg_query_exit, pg_query_thread_exit,    *)
(* pg_query_free_top_memory_context, the memory half of                    *)
(* pg_query_enter_memory_context / pg_query_exit_memory_context).          *)
(*                                                                         *)
(* Every Postgres global is thread-local, so threads share just two        *)
(* things: malloc's heap, and the plain static variable                    *)
(* pg_query_thread_exit_key.  Each thread's first call creates one more    *)
(* pthread key, overwrites the shared variable with it and then reads the  *)
(* variable back to store its TopMemoryContext: the key destructor is what *)
(* frees the context when the thread exits.                                *)
(*                                                                         *)
(* A thread is a slot that can be spawned again after it is gone, so that  *)
(* a behaviour can churn through more threads than there are pthread keys. *)
(***************************************************************************)
EXTENDS Naturals, FiniteSets

CONSTANTS
  Threads,        \* threads that may exist at the same time
  Main,           \* the thread whose end is the end of the process
  MaxKeys,        \* PTHREAD_KEYS_MAX
  MaxHostKeys,    \* keys the host program creates for itself, at most
  ExitCallers,    \* threads on which the host calls pg_query_exit
  ReuseAfterExit, \* does the host call the library again after that?
  NULL

Headers == Threads \X {"top", "error", "call"}

ASSUME LifecycleAssumption ==
  /\ Main \in Threads
  /\ MaxKeys \in Nat \ {0} /\ MaxHostKeys \in Nat
  /\ ExitCallers \subseteq Threads
  /\ ReuseAfterExit \in BOOLEAN
  /\ NULL \notin Headers

\* The key table is large enough for every thread that initializes itself at
\* the same moment, on top of what the host takes.
ASSUME KeyTableAssumption ==
  /\ IsFiniteSet(Threads)
  /\ MaxKeys >= MaxHostKeys + Cardinality(Threads)

VARIABLES
  phase,          \* where each thread stands, see Phases
  initialized,    \* __thread pg_query_initialized
  Top,            \* __thread TopMemoryContext
  Current,        \* __thread CurrentMemoryContext
  Error,          \* __thread ErrorContext
  children,       \* contexts linked below TopMemoryContext
  freelist,       \* __thread context_freelists of aset.c
  heap,           \* context headers that malloc handed out and nobody freed
  keys,           \* pthread's key table: who created each key
  pg_query_thread_exit_key,  \* the static variable, shared by all threads
  created,        \* key just created by a thread and maybe not stored yet
  specific,       \* pthread's per-thread values
  fault           \* what the first undefined or fatal step was

local == <<initialized, Top, Current, Error, children, freelist>>
vars == <<phase, initialized, Top, Current, Error, children, freelist, heap,
          keys, pg_query_thread_exit_key, created, specific, fault>>

Keys == 0..(MaxKeys - 1)
Block(t, kind) == <<t, kind>>
Pointers == Headers \union {NULL}
Phases == {"gone", "idle", "create", "store", "bind", "call", "caught",
           "done", "exiting"}
Faults == {"none", "null_dereference", "use_after_free", "double_free", "exit_2"}

TypeOK ==
  /\ phase \in [Threads -> Phases]
  /\ initialized \in [Threads -> BOOLEAN]
  /\ Top \in [Threads -> Pointers]
  /\ Current \in [Threads -> Pointers]
  /\ Error \in [Threads -> Pointers]
  /\ children \in [Threads -> SUBSET Headers]
  /\ freelist \in [Threads -> SUBSET Headers]
  /\ heap \subseteq Headers
  /\ keys \in [Keys -> {"free", "host", "library"}]
  /\ pg_query_thread_exit_key \in Keys
  /\ created \in [Threads -> Keys \union {NULL}]
  /\ specific \in [Threads -> [Keys -> Pointers]]
  /\ fault \in Faults

Init ==
  /\ phase = [t \in Threads |-> IF t = Main THEN "idle" ELSE "gone"]
  /\ initialized = [t \in Threads |-> FALSE]
  /\ Top = [t \in Threads |-> NULL]
  /\ Current = [t \in Threads |-> NULL]
  /\ Error = [t \in Threads |-> NULL]
  /\ children = [t \in Threads |-> {}]
  /\ freelist = [t \in Threads |-> {}]
  /\ heap = {}
  /\ keys = [k \in Keys |-> "free"]
  /\ pg_query_thread_exit_key = 0
  /\ created = [t \in Threads |-> NULL]
  /\ specific = [t \in Threads |-> [k \in Keys |-> NULL]]
  /\ fault = "none"

At(t, p) == fault = "none" /\ phase[t] = p
Go(t, p) == phase' = [phase EXCEPT ![t] = p]

-----------------------------------------------------------------------------
(* The host program and pthreads. *)

\* pthread_create: a new thread starts with fresh thread-local storage.
Spawn(t) ==
  /\ At(t, "gone")
  /\ Go(t, "idle")
  /\ initialized' = [initialized EXCEPT ![t] = FALSE]
  /\ Top' = [Top EXCEPT ![t] = NULL]
  /\ Current' = [Current EXCEPT ![t] = NULL]
  /\ Error' = [Error EXCEPT ![t] = NULL]
  /\ children' = [children EXCEPT ![t] = {}]
  /\ freelist' = [freelist EXCEPT ![t] = {}]
  /\ created' = [created EXCEPT ![t] = NULL]
  /\ UNCHANGED <<heap, keys, pg_query_thread_exit_key, specific, fault>>

\* The host creates a key of its own, before or between calls.
HostCreateKey(k) ==
  /\ fault = "none"
  /\ keys[k] = "free"
  /\ Cardinality({j \in Keys : keys[j] = "host"}) < MaxHostKeys
  /\ keys' = [keys EXCEPT ![k] = "host"]
  /\ UNCHANGED <<phase, local, heap, pg_query_thread_exit_key, created,
                 specific, fault>>

\* A thread other than the main one returns from its start routine.
ThreadReturn(t) ==
  /\ t # Main
  /\ At(t, "idle") \/ At(t, "done")
  /\ Go(t, "exiting")
  /\ UNCHANGED <<local, heap, keys, pg_query_thread_exit_key, created,
                 specific, fault>>

\* No destructor is left to run: pthread reclaims the thread.
ThreadGone(t) ==
  /\ At(t, "exiting")
  /\ \A k \in Keys : specific[t][k] = NULL
  /\ Go(t, "gone")
  /\ UNCHANGED <<local, heap, keys, pg_query_thread_exit_key, created,
                 specific, fault>>

-----------------------------------------------------------------------------
(* pg_query_init: flag and contexts are thread-local, so they are one step; *)
(* the key is shared, so creating, storing and reading it are three.        *)

\* Mutation: pthread_setspecific is called although no key was created.
InitContextsWithoutKey(t) ==
  /\ At(t, "idle")
  /\ ~initialized[t]
  /\ Go(t, "bind")
  /\ initialized' = [initialized EXCEPT ![t] = TRUE]
  /\ Top' = [Top EXCEPT ![t] = Block(t, "top")]
  /\ Current' = [Current EXCEPT ![t] = Block(t, "top")]
  /\ Error' = [Error EXCEPT ![t] = Block(t, "error")]
  /\ children' = [children EXCEPT ![t] = {Block(t, "error")}]
  /\ heap' = heap \union {Block(t, "top"), Block(t, "error")}
  /\ UNCHANGED <<freelist, keys, pg_query_thread_exit_key, created, specific,
                 fault>>

\* pg_query_init up to MemoryContextInit.
InitContexts(t) ==
  /\ At(t, "idle")
  /\ ~initialized[t]
  /\ Go(t, "create")
  /\ initialized' = [initialized EXCEPT ![t] = TRUE]
  /\ Top' = [Top EXCEPT ![t] = Block(t, "top")]
  /\ Current' = [Current EXCEPT ![t] = Block(t, "top")]
  /\ Error' = [Error EXCEPT ![t] = Block(t, "error")]
  /\ children' = [children EXCEPT ![t] = {Block(t, "error")}]
  /\ heap' = heap \union {Block(t, "top"), Block(t, "error")}
  /\ UNCHANGED <<freelist, keys, pg_query_thread_exit_key, created, specific,
                 fault>>

\* pthread_key_create finds a free slot of the table and claims it ...
KeyCreate(t, k) ==
  /\ At(t, "create")
  /\ keys[k] = "free"
  /\ keys' = [keys EXCEPT ![k] = "library"]
  /\ created' = [created EXCEPT ![t] = k]
  /\ Go(t, "store")
  /\ UNCHANGED <<local, heap, pg_query_thread_exit_key, specific, fault>>

\* ... or finds none and returns EAGAIN, which pg_query_init does not look at.
KeyCreateFails(t) ==
  /\ At(t, "create")
  /\ \A k \in Keys : keys[k] # "free"
  /\ Go(t, "bind")
  /\ UNCHANGED <<local, heap, keys, pg_query_thread_exit_key, created,
                 specific, fault>>

\* pthread_key_create writes the key it claimed through the shared pointer.
KeyStore(t) ==
  /\ At(t, "store")
  /\ pg_query_thread_exit_key' = created[t]
  /\ Go(t, "bind")
  /\ UNCHANGED <<local, heap, keys, created, specific, fault>>

\* pthread_setspecific reads the shared variable, unsynchronized: a thread
\* that stored a key may see its own store or a later one of another thread.
Bind(t) ==
  /\ At(t, "bind")
  /\ \E k \in {pg_query_thread_exit_key} \union ({created[t]} \ {NULL}) :
       specific' = [specific EXCEPT ![t][k] = Top[t]]
  /\ created' = [created EXCEPT ![t] = NULL]
  /\ Go(t, "idle")
  /\ UNCHANGED <<local, heap, keys, pg_query_thread_exit_key, fault>>

-----------------------------------------------------------------------------
(* One API call, as far as the thread's contexts go. *)

\* pg_query_enter_memory_context: AllocSetContextCreate takes a header from the
\* freelist if there is one, else from malloc, links it below TopMemoryContext
\* (which may be NULL) and makes it current.
CallEnter(t) ==
  /\ At(t, "idle")
  /\ initialized[t]
  /\ \E b \in IF freelist[t] = {} THEN {Block(t, "call")} ELSE freelist[t] :
       /\ fault' = IF b \in freelist[t] \ heap THEN "use_after_free" ELSE fault
       /\ heap' = IF b \in freelist[t] THEN heap ELSE heap \union {b}
       /\ children' = IF Top[t] = NULL THEN children
                      ELSE [children EXCEPT ![t] = @ \union {b}]
       /\ Current' = [Current EXCEPT ![t] = b]
       /\ freelist' = [freelist EXCEPT ![t] = @ \ {b}]
  /\ Go(t, "call")
  /\ UNCHANGED <<initialized, Top, Error, keys, pg_query_thread_exit_key,
                 created, specific>>

\* An ereport(ERROR) during the call: without an ErrorContext elog.c gives up
\* with exit(2), otherwise the call's PG_CATCH goes back to the call's context.
Ereport(t) ==
  /\ At(t, "call")
  /\ fault' = IF Error[t] = NULL THEN "exit_2" ELSE fault
  /\ Go(t, "caught")
  /\ UNCHANGED <<local, heap, keys, pg_query_thread_exit_key, created, specific>>

\* Mutation: the call's context is freed but AllocSetDelete still lists it.
CallExitFreesHeader(t) ==
  /\ At(t, "call") \/ At(t, "caught")
  /\ Current' = [Current EXCEPT ![t] = Top[t]]
  /\ children' = [children EXCEPT ![t] = @ \ {Current[t]}]
  /\ freelist' = [freelist EXCEPT ![t] = @ \union {Current[t]}]
  /\ heap' = heap \ {Current[t]}
  /\ Go(t, "idle")
  /\ UNCHANGED <<initialized, Top, Error, keys, pg_query_thread_exit_key,
                 created, specific, fault>>

\* pg_query_exit_memory_context: back to TopMemoryContext; MemoryContextDelete
\* unlinks the call's context and AllocSetDelete keeps its header for reuse.
CallExit(t) ==
  /\ At(t, "call") \/ At(t, "caught")
  /\ Current' = [Current EXCEPT ![t] = Top[t]]
  /\ children' = [children EXCEPT ![t] = @ \ {Current[t]}]
  /\ freelist' = [freelist EXCEPT ![t] = @ \union {Current[t]}]
  /\ Go(t, "idle")
  /\ UNCHANGED <<initialized, Top, Error, heap, keys,
                 pg_query_thread_exit_key, created, specific, fault>>

-----------------------------------------------------------------------------
(* Cleanup. *)

\* Mutation: the cleanup forgets AllocSetDeleteFreeList.
FreeTopKeepsFreelist(t, c) ==
  /\ fault' = IF c \notin heap THEN "use_after_free" ELSE fault
  /\ heap' = heap \ (children[t] \union {c})
  /\ children' = [children EXCEPT ![t] = {}]
  /\ freelist' = [freelist EXCEPT ![t] = @ \union {c}]
  /\ Top' = [Top EXCEPT ![t] = NULL]
  /\ Current' = [Current EXCEPT ![t] = NULL]
  /\ Error' = [Error EXCEPT ![t] = NULL]

\* pg_query_free_top_memory_context(c) on thread t.  Children and the freelist
\* are freed first; c itself then passes through AllocSetDelete, which puts it
\* on the freelist, and is freed there.
FreeTopMemoryContext(t, c) ==
  /\ fault' = IF c = NULL THEN "null_dereference"
              ELSE IF c \notin heap THEN "use_after_free"
              ELSE IF ~(freelist[t] \subseteq heap) THEN "double_free"
              ELSE fault
  /\ heap' = heap \ (children[t] \union freelist[t] \union {c})
  /\ children' = [children EXCEPT ![t] = {}]
  /\ freelist' = [freelist EXCEPT ![t] = {c} \ {NULL}]
  /\ Top' = [Top EXCEPT ![t] = NULL]
  /\ Current' = [Current EXCEPT ![t] = NULL]
  /\ Error' = [Error EXCEPT ![t] = NULL]

\* pg_query_exit, called by the host between calls on a thread that has used
\* the library.  Neither pg_query_initialized nor the key's value is reset.
Exit(t) ==
  /\ t \in ExitCallers
  /\ At(t, "idle")
  /\ initialized[t] /\ Top[t] # NULL
  /\ FreeTopMemoryContext(t, Top[t])
  /\ Go(t, IF ReuseAfterExit THEN "idle" ELSE "done")
  /\ UNCHANGED <<initialized, keys, pg_query_thread_exit_key, created, specific>>

\* pthread clears a library key's value and runs pg_query_thread_exit on it.
Destructor(t, k) ==
  /\ At(t, "exiting")
  /\ specific[t][k] # NULL
  /\ IF keys[k] = "library"
     THEN FreeTopMemoryContext(t, specific[t][k])
     ELSE UNCHANGED <<Top, Current, Error, children, freelist, heap, fault>>
  /\ specific' = [specific EXCEPT ![t][k] = NULL]
  /\ UNCHANGED <<phase, initialized, keys, pg_query_thread_exit_key, created>>

Next ==
  \/ \E t \in Threads :
       \/ Spawn(t) \/ ThreadReturn(t) \/ ThreadGone(t)
       \/ InitContexts(t) \/ KeyCreateFails(t) \/ KeyStore(t) \/ Bind(t)
       \/ CallEnter(t) \/ Ereport(t) \/ CallExit(t)
       \/ Exit(t)
       \/ \E k \in Keys : KeyCreate(t, k) \/ Destructor(t, k)
  \/ \E k \in Keys : HostCreateKey(k)

Spec == Init /\ [][Next]_vars

-----------------------------------------------------------------------------
(* Properties. *)

\* No step of any thread reads, reuses or frees a context header that is not
\* allocated, and no ereport finds ErrorContext missing: the cleanup run by
\* pg_query_exit and by the key destructor, and the headers that
\* AllocSetContextCreate recycles, never meet memory that was freed before.
MemorySafe == fault = "none"

\* A thread that has exited left nothing behind: TopMemoryContext,
\* ErrorContext and the recycled call contexts of pg_query_init and of its
\* calls were all freed, also when two threads raced for
\* pg_query_thread_exit_key and when pthread_key_create found no free key.
NoLeakAfterThreadExit ==
  \A t \in Threads : phase[t] = "gone" => {b \in heap : b[1] = t} = {}

\* pthread_setspecific in pg_query_init only ever writes below a key that the
\* library created: not below one of the host's (key 0, the static variable's
\* initial value, may be one) and not below a slot nobody created.
OnlyLibraryKeysBound ==
  \A t \in Threads, k \in Keys : specific[t][k] # NULL => keys[k] = "library"

-----------------------------------------------------------------------------
(* The inductive invariant the proofs rest on. *)

\* What the host is held to in the passing run and in the theorems: only the
\* main thread calls pg_query_exit, and it makes no call after that.
HostDiscipline == ExitCallers \subseteq {Main} /\ ReuseAfterExit = FALSE

Unbound(t) == \A k \in Keys : specific[t][k] = NULL

\* Exactly one key, one of the library's, holds the thread's context.
Bound(t) ==
  \E k \in Keys : /\ keys[k] = "library"
                  /\ specific[t][k] = Block(t, "top")
                  /\ \A j \in Keys \ {k} : specific[t][j] = NULL

\* The thread owns no context header at all.
OwnsNothing(t) == \A b \in heap : b[1] # t

\* The thread's contexts exist, and every header it owns is reachable from
\* TopMemoryContext or waits on the freelist.
Live(t) ==
  /\ initialized[t]
  /\ Top[t] = Block(t, "top") /\ Error[t] = Block(t, "error")
  /\ Block(t, "top") \in heap
  /\ Block(t, "error") \in children[t]
  /\ children[t] \union freelist[t] \subseteq heap
  /\ children[t] \subseteq {Block(t, "error"), Block(t, "call")}
  /\ freelist[t] \subseteq {Block(t, "call")}
  /\ \A b \in heap : b[1] = t =>
       b \in {Block(t, "top")} \union children[t] \union freelist[t]

\* Between calls no call context is left below TopMemoryContext.
Resting(t) == Current[t] = Top[t] /\ Block(t, "call") \notin children[t]

InCall(t) ==
  /\ Current[t] = Block(t, "call")
  /\ Block(t, "call") \in children[t]
  /\ freelist[t] = {}

ThreadInv(t) ==
  /\ phase[t] = "gone" => t # Main /\ OwnsNothing(t) /\ Unbound(t)
  /\ phase[t] = "idle" /\ ~initialized[t] =>
       OwnsNothing(t) /\ Unbound(t) /\ freelist[t] = {}
  /\ phase[t] = "idle" /\ initialized[t] => Live(t) /\ Resting(t) /\ Bound(t)
  /\ phase[t] \in {"create", "store", "bind"} =>
       Live(t) /\ Resting(t) /\ Unbound(t)
  /\ phase[t] \in {"call", "caught"} => Live(t) /\ InCall(t) /\ Bound(t)
  /\ phase[t] = "done" => t = Main /\ Bound(t)
  /\ phase[t] = "exiting" =>
       /\ t # Main
       /\ \/ OwnsNothing(t) /\ Unbound(t)
          \/ Live(t) /\ Resting(t) /\ Bound(t)

\* Either pg_query_thread_exit_key names a key of the library, or every key
\* the library has created is still on its way into the variable.
KeyInv ==
  /\ \A t \in Threads : phase[t] = "store" \/ created[t] # NULL =>
       created[t] \in Keys /\ keys[created[t]] = "library"
  /\ \A t \in Threads :
       phase[t] = "bind" => keys[pg_query_thread_exit_key] = "library"
  /\ \/ keys[pg_query_thread_exit_key] = "library"
     \/ \A k \in Keys : keys[k] = "library" =>
          \E t \in Threads : phase[t] = "store" /\ created[t] = k
  /\ Cardinality({k \in Keys : keys[k] = "host"}) <= MaxHostKeys

IndInv ==
  /\ TypeOK
  /\ fault = "none"
  /\ \A t \in Threads : ThreadInv(t)
  /\ KeyInv
=============================================================================
