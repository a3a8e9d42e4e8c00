----------------------- MODULE ThreadLifecycleProofs -----------------------
(***************************************************************************)
(* Proofs about what libpg_query keeps for each thread: ThreadLifecycle,   *)
(* for any number of threads and keys, and StackDepth, for every stack and *)
(* limit of a thread.                                                      *)
(***************************************************************************)
EXTENDS ThreadLifecycle, StackDepth, FiniteSetTheorems, TLAPS

-----------------------------------------------------------------------------
(* Type correctness. *)

LEMMA KeyTableNotEmpty == 0 \in Keys /\ Keys \subseteq Nat
  BY LifecycleAssumption DEF Keys

\* Init establishes TypeOK.
LEMMA TypeInit == Init => TypeOK
  <1> SUFFICES ASSUME Init PROVE TypeOK
    OBVIOUS
  <1> QED
    BY KeyTableNotEmpty
       DEF Init, TypeOK, Phases, Pointers, Faults

\* Every step preserves TypeOK.  TypeOK alone is not inductive: a thread that
\* is about to store a key must have one (KeyInv), and a call that ends must
\* have a current context (ThreadInv).
LEMMA TypeNext == IndInv /\ [Next]_vars => TypeOK'
  <1> SUFFICES ASSUME TypeOK, KeyInv, \A t \in Threads : ThreadInv(t),
                      [Next]_vars
               PROVE  TypeOK'
    BY DEF IndInv
  <1> USE DEF TypeOK, At, Go, local, Phases, Faults
  <1>blk. ASSUME NEW t \in Threads
          PROVE  /\ Block(t, "top") \in Headers
                 /\ Block(t, "error") \in Headers
                 /\ Block(t, "call") \in Headers
    BY DEF Block, Headers
  <1>free. ASSUME NEW t \in Threads, NEW c \in Pointers,
                  FreeTopMemoryContext(t, c)
           PROVE  /\ fault' \in Faults
                  /\ heap' \subseteq Headers
                  /\ children' \in [Threads -> SUBSET Headers]
                  /\ freelist' \in [Threads -> SUBSET Headers]
                  /\ Top' \in [Threads -> Pointers]
                  /\ Current' \in [Threads -> Pointers]
                  /\ Error' \in [Threads -> Pointers]
    BY <1>free DEF FreeTopMemoryContext, Pointers
  <1>1. ASSUME NEW t \in Threads, Spawn(t) PROVE TypeOK'
    BY <1>1 DEF Spawn, Pointers
  <1>2. ASSUME NEW t \in Threads, ThreadReturn(t) PROVE TypeOK'
    BY <1>2 DEF ThreadReturn
  <1>3. ASSUME NEW t \in Threads, ThreadGone(t) PROVE TypeOK'
    BY <1>3 DEF ThreadGone
  <1>4. ASSUME NEW t \in Threads, InitContexts(t) PROVE TypeOK'
    BY <1>4, <1>blk DEF InitContexts, Pointers
  <1>5. ASSUME NEW t \in Threads, KeyCreateFails(t) PROVE TypeOK'
    BY <1>5 DEF KeyCreateFails
  <1>6. ASSUME NEW t \in Threads, KeyStore(t) PROVE TypeOK'
    <2>1. created[t] \in Keys
      BY <1>6 DEF KeyStore, KeyInv
    <2> QED
      BY <1>6, <2>1 DEF KeyStore
  <1>7. ASSUME NEW t \in Threads, Bind(t) PROVE TypeOK'
    BY <1>7 DEF Bind
  <1>8. ASSUME NEW t \in Threads, CallEnter(t) PROVE TypeOK'
    BY <1>8, <1>blk DEF CallEnter, Pointers
  <1>9. ASSUME NEW t \in Threads, Ereport(t) PROVE TypeOK'
    BY <1>9 DEF Ereport
  <1>10. ASSUME NEW t \in Threads, CallExit(t) PROVE TypeOK'
    <2>1. Current[t] = Block(t, "call")
      BY <1>10 DEF CallExit, ThreadInv, InCall
    <2> QED
      BY <1>10, <1>blk, <2>1 DEF CallExit, Pointers
  <1>11. ASSUME NEW t \in Threads, Exit(t) PROVE TypeOK'
    BY <1>11, <1>free DEF Exit
  <1>12. ASSUME NEW t \in Threads, NEW k \in Keys, KeyCreate(t, k) PROVE TypeOK'
    BY <1>12 DEF KeyCreate
  <1>13. ASSUME NEW t \in Threads, NEW k \in Keys, Destructor(t, k) PROVE TypeOK'
    BY <1>13, <1>free DEF Destructor, Pointers
  <1>14. ASSUME NEW k \in Keys, HostCreateKey(k) PROVE TypeOK'
    BY <1>14 DEF HostCreateKey
  <1>15. CASE UNCHANGED vars
    BY <1>15 DEF vars
  <1> QED
    BY <1>1, <1>2, <1>3, <1>4, <1>5, <1>6, <1>7, <1>8, <1>9, <1>10, <1>11,
       <1>12, <1>13, <1>14, <1>15 DEF Next

-----------------------------------------------------------------------------
(* The shared key. *)

\* When pthread_key_create finds no free key, the shared variable already
\* holds a key of the library: the table has room for the host's keys and for
\* one key per thread, and the thread that failed holds none.
LEMMA FullTableHasStoredKey ==
  ASSUME TypeOK, KeyInv,
         NEW t \in Threads, phase[t] = "create",
         \A k \in Keys : keys[k] # "free"
  PROVE  keys[pg_query_thread_exit_key] = "library"
  <1> SUFFICES ASSUME keys[pg_query_thread_exit_key] # "library" PROVE FALSE
    OBVIOUS
  <1> DEFINE H == {k \in Keys : keys[k] = "host"}
             L == {k \in Keys : keys[k] = "library"}
             S == {u \in Threads : phase[u] = "store"}
  <1>1. /\ IsFiniteSet(Keys) /\ Cardinality(Keys) = MaxKeys
    <2>1. 0 \in Int /\ MaxKeys - 1 \in Int /\ MaxKeys > 0
      BY LifecycleAssumption
    <2> QED
      BY <2>1, FS_Interval, LifecycleAssumption DEF Keys
  <1>2. IsFiniteSet(H) /\ IsFiniteSet(L) /\ IsFiniteSet(H \cap L)
    BY <1>1, FS_Subset
  <1>3. Keys = H \union L
    BY DEF TypeOK
  <1>4. Cardinality(Keys) = Cardinality(H) + Cardinality(L) - Cardinality(H \cap L)
    BY <1>2, <1>3, FS_Union
  <1>5. /\ Cardinality(H) \in Nat /\ Cardinality(L) \in Nat
        /\ Cardinality(H \cap L) \in Nat
    BY <1>2, FS_CardinalityType
  <1>6. IsFiniteSet(S) /\ Cardinality(S) < Cardinality(Threads)
        /\ Cardinality(S) \in Nat /\ Cardinality(Threads) \in Nat
    <2>1. S \subseteq Threads /\ S # Threads
      OBVIOUS
    <2> QED
      BY <2>1, FS_Subset, FS_CardinalityType, KeyTableAssumption
  <1>7. Cardinality(L) <= Cardinality(S)
    <2>1. \A k \in L : \E u \in S : created[u] = k
      BY DEF KeyInv
    <2> DEFINE f == [k \in L |-> CHOOSE u \in S : created[u] = k]
    <2>2. \A k \in L : f[k] \in S /\ created[f[k]] = k
      BY <2>1
    <2>3. f \in [L -> S]
      BY <2>2
    <2>4. f \in Injection(L, S)
      BY <2>2, <2>3 DEF Injection, IsInjective
    <2> QED
      BY <2>4, <1>6, FS_Injection
  <1>8. Cardinality(H) <= MaxHostKeys
    BY DEF KeyInv
  <1> QED
    BY <1>1, <1>4, <1>5, <1>6, <1>7, <1>8, KeyTableAssumption,
       LifecycleAssumption

\* A step that leaves thread u's own state and headers alone, and takes no key
\* away from the library, preserves u's invariant.
LEMMA OtherThread ==
  ASSUME NEW u \in Threads, ThreadInv(u),
         phase'[u] = phase[u], initialized'[u] = initialized[u],
         Top'[u] = Top[u], Current'[u] = Current[u], Error'[u] = Error[u],
         children'[u] = children[u], freelist'[u] = freelist[u],
         specific'[u] = specific[u],
         \A b \in Headers : b[1] = u => (b \in heap' <=> b \in heap),
         heap \subseteq Headers, heap' \subseteq Headers,
         \A k \in Keys : keys[k] = "library" => keys'[k] = "library"
  PROVE  ThreadInv(u)'
  <1>0. Block(u, "top")[1] = u /\ Block(u, "top") \in Headers
    BY DEF Block, Headers
  <1>1. OwnsNothing(u) => OwnsNothing(u)'
    BY DEF OwnsNothing
  <1>2. Unbound(u) => Unbound(u)'
    BY DEF Unbound
  <1>3. Bound(u) => Bound(u)'
    BY DEF Bound
  <1>4. Live(u) => Live(u)'
    <2> SUFFICES ASSUME Live(u) PROVE Live(u)'
      OBVIOUS
    <2>1. \A b \in children[u] \union freelist[u] : b \in Headers /\ b[1] = u
      BY DEF Live, Block, Headers
    <2> QED
      BY <1>0, <2>1 DEF Live
  <1>5. Resting(u) => Resting(u)'
    BY DEF Resting
  <1>6. InCall(u) => InCall(u)'
    BY DEF InCall
  <1> QED
    BY <1>1, <1>2, <1>3, <1>4, <1>5, <1>6 DEF ThreadInv

-----------------------------------------------------------------------------
(* The inductive invariant. *)

LEMMA InvInit == Init => IndInv
  <1> SUFFICES ASSUME Init PROVE IndInv
    OBVIOUS
  <1>1. TypeOK
    BY TypeInit
  <1>2. \A t \in Threads : ThreadInv(t)
    BY DEF Init, ThreadInv, OwnsNothing, Unbound
  <1>3. KeyInv
    <2>1. {k \in Keys : keys[k] = "host"} = {}
      BY DEF Init
    <2>2. Cardinality({k \in Keys : keys[k] = "host"}) <= MaxHostKeys
      BY <2>1, FS_EmptySet, LifecycleAssumption
    <2> QED
      BY <2>2 DEF Init, KeyInv
  <1> QED
    BY <1>1, <1>2, <1>3 DEF IndInv, Init

\* A step of thread t on its own state: the other threads keep their
\* invariant if the step only touches headers of t.
LEMMA OtherThreads ==
  ASSUME NEW t \in Threads, TypeOK, TypeOK', \A u \in Threads : ThreadInv(u),
         \A u \in Threads \ {t} :
           /\ phase'[u] = phase[u] /\ initialized'[u] = initialized[u]
           /\ Top'[u] = Top[u] /\ Current'[u] = Current[u]
           /\ Error'[u] = Error[u] /\ children'[u] = children[u]
           /\ freelist'[u] = freelist[u] /\ specific'[u] = specific[u],
         \A b \in Headers : b[1] # t => (b \in heap' <=> b \in heap),
         \A k \in Keys : keys[k] = "library" => keys'[k] = "library"
  PROVE  \A u \in Threads \ {t} : ThreadInv(u)'
  BY OtherThread DEF TypeOK

\* FreeTopMemoryContext on a live thread at rest frees all it owns.
LEMMA CleanupFreesAll ==
  ASSUME NEW t \in Threads, Live(t), fault = "none", heap \subseteq Headers,
         FreeTopMemoryContext(t, Block(t, "top"))
  PROVE  /\ fault' = "none"
         /\ OwnsNothing(t)'
         /\ \A b \in Headers : b[1] # t => (b \in heap' <=> b \in heap)
  <1>0. /\ Block(t, "top") \in Headers /\ Block(t, "top") # NULL
        /\ Block(t, "top")[1] = t /\ Block(t, "error")[1] = t
        /\ Block(t, "call")[1] = t
    BY LifecycleAssumption DEF Block, Headers
  <1> QED
    BY <1>0 DEF FreeTopMemoryContext, Live, OwnsNothing

\* Every step keeps every thread's invariant and raises no fault, provided the
\* host keeps to its discipline.
LEMMA ThreadsNext ==
  ASSUME HostDiscipline, IndInv, Next, TypeOK'
  PROVE  fault' = "none" /\ \A u \in Threads : ThreadInv(u)'
  <1> USE DEF At, Go, local
  <1>0. /\ TypeOK /\ fault = "none" /\ KeyInv
        /\ \A u \in Threads : ThreadInv(u)
    BY DEF IndInv
  <1>blk. ASSUME NEW t \in Threads
          PROVE  /\ Block(t, "top") \in Headers /\ Block(t, "error") \in Headers
                 /\ Block(t, "call") \in Headers
                 /\ Block(t, "top")[1] = t /\ Block(t, "error")[1] = t
                 /\ Block(t, "call")[1] = t
                 /\ Block(t, "top") # Block(t, "error")
                 /\ Block(t, "top") # Block(t, "call")
                 /\ Block(t, "error") # Block(t, "call")
                 /\ Block(t, "top") # NULL /\ Block(t, "error") # NULL
                 /\ Block(t, "call") # NULL
    BY LifecycleAssumption DEF Block, Headers
  <1> DEFINE Goal == fault' = "none" /\ \A u \in Threads : ThreadInv(u)'
  <1>1. ASSUME NEW t \in Threads, Spawn(t) PROVE Goal
    <2>1. ThreadInv(t)'
      BY <1>0, <1>1 DEF Spawn, ThreadInv, OwnsNothing, Unbound, TypeOK
    <2>2. \A u \in Threads \ {t} : ThreadInv(u)'
      BY <1>0, <1>1, OtherThreads DEF Spawn, TypeOK
    <2> QED
      BY <1>0, <1>1, <2>1, <2>2 DEF Spawn
  <1>2. ASSUME NEW t \in Threads, ThreadReturn(t) PROVE Goal
    <2>1. ThreadInv(t)'
      BY <1>0, <1>2 DEF ThreadReturn, ThreadInv, OwnsNothing, Unbound, Bound,
                        Live, Resting, TypeOK
    <2>2. \A u \in Threads \ {t} : ThreadInv(u)'
      BY <1>0, <1>2, OtherThreads DEF ThreadReturn, TypeOK
    <2> QED
      BY <1>0, <1>2, <2>1, <2>2 DEF ThreadReturn
  <1>3. ASSUME NEW t \in Threads, ThreadGone(t) PROVE Goal
    <2>0. ~Bound(t)
      BY <1>3, <1>blk DEF ThreadGone, Bound
    <2>1. ThreadInv(t)'
      BY <1>0, <1>3, <2>0 DEF ThreadGone, ThreadInv, OwnsNothing, Unbound, TypeOK
    <2>2. \A u \in Threads \ {t} : ThreadInv(u)'
      BY <1>0, <1>3, OtherThreads DEF ThreadGone, TypeOK
    <2> QED
      BY <1>0, <1>3, <2>1, <2>2 DEF ThreadGone
  <1>4. ASSUME NEW t \in Threads, InitContexts(t) PROVE Goal
    <2>0. OwnsNothing(t) /\ Unbound(t) /\ freelist[t] = {}
      BY <1>0, <1>4 DEF InitContexts, ThreadInv
    <2>1. Live(t)' /\ Resting(t)' /\ Unbound(t)'
      BY <1>0, <1>4, <1>blk, <2>0
         DEF InitContexts, OwnsNothing, Unbound, Live, Resting, TypeOK
    <2>2. ThreadInv(t)'
      BY <1>0, <1>4, <2>1 DEF InitContexts, ThreadInv, TypeOK
    <2>3. \A u \in Threads \ {t} : ThreadInv(u)'
      BY <1>0, <1>4, <1>blk, OtherThreads DEF InitContexts, TypeOK
    <2> QED
      BY <1>0, <1>4, <2>2, <2>3 DEF InitContexts
  <1>5. ASSUME NEW t \in Threads, KeyCreateFails(t) PROVE Goal
    <2>1. ThreadInv(t)'
      BY <1>0, <1>5 DEF KeyCreateFails, ThreadInv, Unbound, Live, Resting, TypeOK
    <2>2. \A u \in Threads \ {t} : ThreadInv(u)'
      BY <1>0, <1>5, OtherThreads DEF KeyCreateFails, TypeOK
    <2> QED
      BY <1>0, <1>5, <2>1, <2>2 DEF KeyCreateFails
  <1>6. ASSUME NEW t \in Threads, KeyStore(t) PROVE Goal
    <2>1. ThreadInv(t)'
      BY <1>0, <1>6 DEF KeyStore, ThreadInv, Unbound, Live, Resting, TypeOK
    <2>2. \A u \in Threads \ {t} : ThreadInv(u)'
      BY <1>0, <1>6, OtherThreads DEF KeyStore, TypeOK
    <2> QED
      BY <1>0, <1>6, <2>1, <2>2 DEF KeyStore
  <1>7. ASSUME NEW t \in Threads, Bind(t) PROVE Goal
    <2>0. Live(t) /\ Resting(t) /\ Unbound(t)
      BY <1>0, <1>7 DEF Bind, ThreadInv
    <2>1. PICK k \in {pg_query_thread_exit_key} \union ({created[t]} \ {NULL}) :
            specific' = [specific EXCEPT ![t][k] = Top[t]]
      BY <1>7 DEF Bind
    <2>2. k \in Keys /\ keys[k] = "library"
      BY <1>0, <1>7, <2>1 DEF Bind, KeyInv, TypeOK
    <2>3. Bound(t)'
      BY <1>0, <1>7, <2>0, <2>1, <2>2 DEF Bind, Bound, Unbound, Live, TypeOK
    <2>4. Live(t)' /\ Resting(t)'
      BY <1>0, <1>7, <2>0 DEF Bind, Live, Resting, TypeOK
    <2>5. ThreadInv(t)'
      BY <1>0, <1>7, <2>3, <2>4 DEF Bind, ThreadInv, Live, TypeOK
    <2>6. \A u \in Threads \ {t} : ThreadInv(u)'
      BY <1>0, <1>7, <2>1, OtherThreads DEF Bind, TypeOK
    <2> QED
      BY <1>0, <1>7, <2>5, <2>6 DEF Bind
  <1>8. ASSUME NEW t \in Threads, CallEnter(t) PROVE Goal
    <2>0. Live(t) /\ Resting(t) /\ Bound(t)
      BY <1>0, <1>8 DEF CallEnter, ThreadInv
    <2>1. /\ fault' = "none"
          /\ heap' = heap \union {Block(t, "call")}
          /\ children' = [children EXCEPT ![t] = @ \union {Block(t, "call")}]
          /\ Current' = [Current EXCEPT ![t] = Block(t, "call")]
          /\ freelist' = [freelist EXCEPT ![t] = {}]
      <3>1. PICK b \in IF freelist[t] = {} THEN {Block(t, "call")} ELSE freelist[t] :
              /\ fault' = IF b \in freelist[t] \ heap THEN "use_after_free" ELSE fault
              /\ heap' = IF b \in freelist[t] THEN heap ELSE heap \union {b}
              /\ children' = IF Top[t] = NULL THEN children
                             ELSE [children EXCEPT ![t] = @ \union {b}]
              /\ Current' = [Current EXCEPT ![t] = b]
              /\ freelist' = [freelist EXCEPT ![t] = @ \ {b}]
        BY <1>8 DEF CallEnter
      <3>2. b = Block(t, "call") /\ freelist[t] \ {b} = {}
        BY <2>0, <3>1 DEF Live
      <3>3. b \in freelist[t] => b \in heap
        BY <2>0 DEF Live
      <3>4. Top[t] # NULL
        BY <1>blk, <2>0 DEF Live
      <3> QED
        BY <1>0, <3>1, <3>2, <3>3, <3>4 DEF TypeOK
    <2>2. Live(t)' /\ InCall(t)'
      BY <1>0, <1>8, <1>blk, <2>0, <2>1 DEF CallEnter, Live, InCall, TypeOK
    <2>3. Bound(t)'
      BY <1>8, <2>0 DEF CallEnter, Bound
    <2>4. ThreadInv(t)'
      BY <1>0, <1>8, <2>2, <2>3 DEF CallEnter, ThreadInv, TypeOK
    <2>5. \A u \in Threads \ {t} : ThreadInv(u)'
      BY <1>0, <1>8, <1>blk, <2>1, OtherThreads DEF CallEnter, TypeOK
    <2> QED
      BY <2>1, <2>4, <2>5
  <1>9. ASSUME NEW t \in Threads, Ereport(t) PROVE Goal
    <2>0. Live(t) /\ InCall(t) /\ Bound(t)
      BY <1>0, <1>9 DEF Ereport, ThreadInv
    <2>1. fault' = "none"
      BY <1>0, <1>9, <1>blk, <2>0 DEF Ereport, Live
    <2>2. ThreadInv(t)'
      BY <1>0, <1>9, <2>0 DEF Ereport, ThreadInv, Bound, Live, InCall, TypeOK
    <2>3. \A u \in Threads \ {t} : ThreadInv(u)'
      BY <1>0, <1>9, OtherThreads DEF Ereport, TypeOK
    <2> QED
      BY <2>1, <2>2, <2>3
  <1>10. ASSUME NEW t \in Threads, CallExit(t) PROVE Goal
    <2>0. Live(t) /\ InCall(t) /\ Bound(t)
      BY <1>0, <1>10 DEF CallExit, ThreadInv
    <2>1. Live(t)' /\ Resting(t)'
      BY <1>0, <1>10, <1>blk, <2>0 DEF CallExit, Live, InCall, Resting, TypeOK
    <2>2. Bound(t)'
      BY <1>10, <2>0 DEF CallExit, Bound
    <2>3. ThreadInv(t)'
      BY <1>0, <1>10, <2>1, <2>2 DEF CallExit, ThreadInv, Live, TypeOK
    <2>4. \A u \in Threads \ {t} : ThreadInv(u)'
      BY <1>0, <1>10, OtherThreads DEF CallExit, TypeOK
    <2> QED
      BY <1>0, <1>10, <2>3, <2>4 DEF CallExit
  <1>11. ASSUME NEW t \in Threads, Exit(t) PROVE Goal
    <2>0. Live(t) /\ Bound(t) /\ t = Main
      BY <1>0, <1>11 DEF Exit, ThreadInv, HostDiscipline
    <2>1. FreeTopMemoryContext(t, Block(t, "top"))
      BY <1>11, <2>0 DEF Exit, Live
    <2>2. /\ fault' = "none"
          /\ \A b \in Headers : b[1] # t => (b \in heap' <=> b \in heap)
      BY <1>0, <2>0, <2>1, CleanupFreesAll DEF TypeOK
    <2>3. phase'[t] = "done"
      BY <1>0, <1>11 DEF Exit, HostDiscipline, TypeOK
    <2>4. ThreadInv(t)'
      BY <1>11, <2>0, <2>3 DEF Exit, ThreadInv, Bound
    <2>5. \A u \in Threads \ {t} : ThreadInv(u)'
      BY <1>0, <1>11, <2>1, <2>2, OtherThreads
         DEF Exit, FreeTopMemoryContext, TypeOK
    <2> QED
      BY <2>2, <2>4, <2>5
  <1>12. ASSUME NEW t \in Threads, NEW k \in Keys, KeyCreate(t, k) PROVE Goal
    <2>1. ThreadInv(t)'
      BY <1>0, <1>12 DEF KeyCreate, ThreadInv, Unbound, Live, Resting, TypeOK
    <2>2. \A u \in Threads \ {t} : ThreadInv(u)'
      BY <1>0, <1>12, OtherThreads DEF KeyCreate, TypeOK
    <2> QED
      BY <1>0, <1>12, <2>1, <2>2 DEF KeyCreate
  <1>13. ASSUME NEW t \in Threads, NEW k \in Keys, Destructor(t, k) PROVE Goal
    <2>0. Live(t) /\ Bound(t)
      BY <1>0, <1>13 DEF Destructor, ThreadInv, Unbound
    <2>1. /\ keys[k] = "library" /\ specific[t][k] = Block(t, "top")
          /\ \A j \in Keys \ {k} : specific[t][j] = NULL
      BY <1>13, <2>0 DEF Destructor, Bound
    <2>2. FreeTopMemoryContext(t, Block(t, "top"))
      BY <1>13, <2>1 DEF Destructor
    <2>3. /\ fault' = "none" /\ OwnsNothing(t)'
          /\ \A b \in Headers : b[1] # t => (b \in heap' <=> b \in heap)
      BY <1>0, <2>0, <2>2, CleanupFreesAll DEF TypeOK
    <2>4. Unbound(t)'
      BY <1>0, <1>13, <2>1 DEF Destructor, Unbound, TypeOK
    <2>5. ThreadInv(t)'
      BY <1>0, <1>13, <2>3, <2>4 DEF Destructor, ThreadInv
    <2>6. \A u \in Threads \ {t} : ThreadInv(u)'
      BY <1>0, <1>13, <2>2, <2>3, OtherThreads
         DEF Destructor, FreeTopMemoryContext, TypeOK
    <2> QED
      BY <2>3, <2>5, <2>6
  <1>14. ASSUME NEW k \in Keys, HostCreateKey(k) PROVE Goal
    BY <1>0, <1>14, OtherThread DEF HostCreateKey, TypeOK
  <1> QED
    BY <1>1, <1>2, <1>3, <1>4, <1>5, <1>6, <1>7, <1>8, <1>9, <1>10, <1>11,
       <1>12, <1>13, <1>14 DEF Next

\* Every step keeps the invariant of the shared key.
LEMMA KeyNext ==
  ASSUME IndInv, Next, TypeOK'
  PROVE  KeyInv'
  <1> USE DEF At, Go, local
  <1>0. TypeOK /\ KeyInv /\ Keys \subseteq Nat
    BY KeyTableNotEmpty DEF IndInv
  <1>same. ASSUME NEW t \in Threads, phase[t] # "store", phase'[t] # "store",
                  \A u \in Threads \ {t} : phase'[u] = phase[u],
                  phase'[t] = "bind" =>
                    keys[pg_query_thread_exit_key] = "library",
                  created' \in {created, [created EXCEPT ![t] = NULL]},
                  UNCHANGED <<keys, pg_query_thread_exit_key>>
           PROVE  KeyInv'
    <2>1. \A u \in Threads : created'[u] = created[u] \/ created'[u] = NULL
      BY <1>0, <1>same DEF TypeOK
    <2>2. \A u \in Threads \ {t} : created'[u] = created[u]
      BY <1>0, <1>same DEF TypeOK
    <2>3. ASSUME NEW u \in Threads, phase'[u] = "store" \/ created'[u] # NULL
          PROVE  created'[u] \in Keys /\ keys'[created'[u]] = "library"
      <3>1. created'[u] = created[u] /\ (phase[u] = "store" \/ created[u] # NULL)
        BY <1>same, <2>1, <2>2, <2>3
      <3> QED
        BY <1>0, <1>same, <3>1 DEF KeyInv
    <2>4. \/ keys'[pg_query_thread_exit_key'] = "library"
          \/ \A k \in Keys : keys'[k] = "library" =>
               \E u \in Threads : phase'[u] = "store" /\ created'[u] = k
      BY <1>0, <1>same, <2>2 DEF KeyInv
    <2>5. \A u \in Threads : phase'[u] = "bind" =>
            keys'[pg_query_thread_exit_key'] = "library"
      BY <1>0, <1>same DEF KeyInv
    <2>6. Cardinality({k \in Keys : keys'[k] = "host"}) <= MaxHostKeys
      BY <1>0, <1>same DEF KeyInv
    <2> QED
      BY <2>3, <2>4, <2>5, <2>6 DEF KeyInv
  <1>1. ASSUME NEW t \in Threads,
               \/ Spawn(t) \/ ThreadReturn(t) \/ ThreadGone(t) \/ InitContexts(t)
               \/ CallEnter(t) \/ Ereport(t) \/ CallExit(t) \/ Exit(t) \/ Bind(t)
        PROVE  KeyInv'
    <2>1. /\ phase[t] # "store" /\ phase'[t] \notin {"store", "bind"}
          /\ \A u \in Threads \ {t} : phase'[u] = phase[u]
          /\ created' \in {created, [created EXCEPT ![t] = NULL]}
          /\ UNCHANGED <<keys, pg_query_thread_exit_key>>
      BY <1>0, <1>1 DEF Spawn, ThreadReturn, ThreadGone, InitContexts, CallEnter,
         Ereport, CallExit, Exit, Bind, TypeOK
    <2> QED
      BY <2>1, <1>same
  <1>2. ASSUME NEW t \in Threads, KeyCreateFails(t) PROVE KeyInv'
    <2>1. keys[pg_query_thread_exit_key] = "library"
      BY <1>0, <1>2, FullTableHasStoredKey DEF KeyCreateFails
    <2> QED
      BY <1>0, <1>2, <2>1, <1>same DEF KeyCreateFails, TypeOK
  <1>3. ASSUME NEW t \in Threads, KeyStore(t) PROVE KeyInv'
    BY <1>0, <1>3 DEF KeyStore, KeyInv, TypeOK
  <1>4. ASSUME NEW t \in Threads, NEW k \in Keys, KeyCreate(t, k) PROVE KeyInv'
    <2>1. {j \in Keys : keys'[j] = "host"} = {j \in Keys : keys[j] = "host"}
      BY <1>0, <1>4 DEF KeyCreate, TypeOK
    <2>2. \A j \in Keys : keys[j] = "library" => keys'[j] = "library"
      BY <1>0, <1>4 DEF KeyCreate, TypeOK
    <2>3. /\ phase'[t] = "store" /\ created'[t] = k /\ keys'[k] = "library"
          /\ \A u \in Threads \ {t} :
               phase'[u] = phase[u] /\ created'[u] = created[u]
          /\ phase[t] # "store"
          /\ \A j \in Keys \ {k} : keys'[j] = keys[j]
          /\ pg_query_thread_exit_key' = pg_query_thread_exit_key
      BY <1>0, <1>4 DEF KeyCreate, TypeOK
    <2>4. ASSUME NEW u \in Threads, phase'[u] = "store" \/ created'[u] # NULL
          PROVE  created'[u] \in Keys /\ keys'[created'[u]] = "library"
      <3>1. CASE u = t
        BY <2>3, <3>1
      <3>2. CASE u # t
        <4>1. created'[u] = created[u] /\ (phase[u] = "store" \/ created[u] # NULL)
          BY <2>3, <2>4, <3>2
        <4> QED
          BY <1>0, <2>2, <4>1 DEF KeyInv
      <3> QED
        BY <3>1, <3>2
    <2>5. \A u \in Threads : phase'[u] = "bind" =>
            keys'[pg_query_thread_exit_key'] = "library"
      BY <1>0, <2>2, <2>3 DEF KeyInv, TypeOK
    <2>6. \/ keys'[pg_query_thread_exit_key'] = "library"
          \/ \A j \in Keys : keys'[j] = "library" =>
               \E u \in Threads : phase'[u] = "store" /\ created'[u] = j
      <3>1. CASE keys[pg_query_thread_exit_key] = "library"
        BY <1>0, <2>2, <2>3, <3>1 DEF TypeOK
      <3>2. CASE \A j \in Keys : keys[j] = "library" =>
                   \E u \in Threads : phase[u] = "store" /\ created[u] = j
        <4>1. ASSUME NEW j \in Keys, keys'[j] = "library", j # k
              PROVE  \E u \in Threads : phase'[u] = "store" /\ created'[u] = j
          <5>1. PICK u \in Threads : phase[u] = "store" /\ created[u] = j
            BY <2>3, <3>2, <4>1
          <5> QED
            BY <2>3, <5>1
        <4> QED
          BY <2>3, <4>1
      <3> QED
        BY <1>0, <3>1, <3>2 DEF KeyInv
    <2>7. Cardinality({j \in Keys : keys'[j] = "host"}) <= MaxHostKeys
      BY <1>0, <2>1 DEF KeyInv
    <2> QED
      BY <2>4, <2>5, <2>6, <2>7 DEF KeyInv
  <1>5. ASSUME NEW t \in Threads, NEW k \in Keys, Destructor(t, k) PROVE KeyInv'
    BY <1>0, <1>5 DEF Destructor, KeyInv
  <1>6. ASSUME NEW k \in Keys, HostCreateKey(k) PROVE KeyInv'
    <2> DEFINE H == {j \in Keys : keys[j] = "host"}
    <2>1. IsFiniteSet(H)
      <3>1. 0 \in Int /\ MaxKeys - 1 \in Int
        BY LifecycleAssumption
      <3>2. IsFiniteSet(Keys)
        BY <3>1, FS_Interval DEF Keys
      <3> QED
        BY <3>2, FS_Subset
    <2>2. {j \in Keys : keys'[j] = "host"} = H \union {k}
      BY <1>0, <1>6 DEF HostCreateKey, TypeOK
    <2>3. Cardinality(H \union {k}) <= MaxHostKeys
      <3>1. Cardinality(H) \in Nat /\ k \notin H
        BY <1>6, <2>1, FS_CardinalityType DEF HostCreateKey
      <3>2. Cardinality(H \union {k}) = Cardinality(H) + 1
        BY <2>1, <3>1, FS_AddElement
      <3> QED
        BY <1>6, <3>1, <3>2, LifecycleAssumption DEF HostCreateKey
    <2>4. \A j \in Keys : keys'[j] = "library" <=> keys[j] = "library"
      BY <1>0, <1>6 DEF HostCreateKey, TypeOK
    <2> QED
      BY <1>0, <1>6, <2>2, <2>3, <2>4 DEF HostCreateKey, KeyInv, TypeOK
  <1> QED
    BY <1>1, <1>2, <1>3, <1>4, <1>5, <1>6 DEF Next

LEMMA InvNext ==
  ASSUME HostDiscipline
  PROVE  IndInv /\ [Next]_vars => IndInv'
  <1> SUFFICES ASSUME IndInv, [Next]_vars PROVE IndInv'
    OBVIOUS
  <1>1. TypeOK'
    BY TypeNext
  <1>2. CASE Next
    BY <1>1, <1>2, ThreadsNext, KeyNext DEF IndInv
  <1>3. CASE UNCHANGED vars
    BY <1>3 DEF vars, IndInv, TypeOK, ThreadInv, KeyInv, OwnsNothing, Unbound,
                Bound, Live, Resting, InCall
  <1> QED
    BY <1>2, <1>3

-----------------------------------------------------------------------------
(* The theorems. *)

\* IndInv is an invariant: as long as only the main thread calls
\* pg_query_exit, and calls nothing afterwards, for any number of threads.
THEOREM LifecycleInvariant ==
  ASSUME HostDiscipline
  PROVE  Spec => []IndInv
  BY InvInit, InvNext, PTL DEF Spec

\* Type correctness of pg_query.c's thread-local and shared state.
THEOREM TypeCorrect ==
  ASSUME HostDiscipline
  PROVE  Spec => []TypeOK
  <1>1. IndInv => TypeOK
    BY DEF IndInv
  <1> QED
    BY <1>1, LifecycleInvariant, PTL

\* Initialization, calls and both cleanup paths never touch a freed context
\* header, for any number of threads racing on pg_query_thread_exit_key.
THEOREM MemorySafety ==
  ASSUME HostDiscipline
  PROVE  Spec => []MemorySafe
  <1>1. IndInv => MemorySafe
    BY DEF IndInv, MemorySafe
  <1> QED
    BY <1>1, LifecycleInvariant, PTL

\* A thread that is gone owns no context header, however many threads came
\* and went and whether or not they got a pthread key of their own.
THEOREM NoLeak ==
  ASSUME HostDiscipline
  PROVE  Spec => []NoLeakAfterThreadExit
  <1>1. IndInv => NoLeakAfterThreadExit
    BY DEF IndInv, NoLeakAfterThreadExit, ThreadInv, OwnsNothing
  <1> QED
    BY <1>1, LifecycleInvariant, PTL

\* pthread_setspecific never writes below a key of the host or below a slot
\* that was never created, key 0 included.
THEOREM OnlyLibraryKeys ==
  ASSUME HostDiscipline
  PROVE  Spec => []OnlyLibraryKeysBound
  <1>1. IndInv => OnlyLibraryKeysBound
    <2> SUFFICES ASSUME IndInv, NEW t \in Threads, NEW k \in Keys,
                        specific[t][k] # NULL
                 PROVE  keys[k] = "library"
      BY DEF OnlyLibraryKeysBound
    <2>1. ThreadInv(t) /\ phase[t] \in Phases
      BY DEF IndInv, TypeOK
    <2>2. ~Unbound(t)
      BY DEF Unbound
    <2>3. Bound(t)
      BY <2>1, <2>2 DEF ThreadInv, Phases
    <2> QED
      BY <2>3 DEF Bound
  <1> QED
    BY <1>1, LifecycleInvariant, PTL

-----------------------------------------------------------------------------
(* The limit of the stack of one thread. *)

\* The inductive invariant: in a call with enough stack the limit leaves the slop,
\* and in every call what is used exceeds the limit by no more than the frames
\* between two checks.
DepthInv ==
  /\ StackTypeOK
  /\ LimitLeavesSlop
  /\ call_phase = "call" => used <= max_stack_depth
  /\ call_phase = "deeper" => used <= max_stack_depth + MaxFrames
  /\ NoStackOverflow
  /\ call_phase = "host" => ~overflow

\* What set_max_stack_depth computes: a limit between the default and the cap that
\* leaves the slop free where both fit, and otherwise the old one.
LEMMA LimitFits ==
  ASSUME NEW h \in Headrooms, NEW old \in Minimum..Cap
  PROVE  /\ Limit(h, old) \in Minimum..Cap
         /\ Roomy(h) => Limit(h, old) + Slop <= h
  <1>1. CASE h = Unknown
    BY <1>1 DEF Limit, Roomy
  <1>2. CASE h # Unknown
    <2>1. h \in Nat
      BY <1>2, StackAssumption
    <2> QED
      BY <1>2, <2>1, StackAssumption DEF Limit, Roomy
  <1> QED
    BY <1>1, <1>2

LEMMA DepthInit == StackInit => DepthInv
  <1>1. Minimum \in Minimum..Cap /\ 0 \in 0..(Cap + MaxFrames)
    BY StackAssumption
  <1>2. StackInit => StackTypeOK
    BY <1>1 DEF StackInit, StackTypeOK
  <1> QED
    BY <1>2 DEF StackInit, DepthInv, LimitLeavesSlop, NoStackOverflow

LEMMA DepthNext == DepthInv /\ [StackNext]_depth_vars => DepthInv'
  <1> SUFFICES ASSUME DepthInv, [StackNext]_depth_vars PROVE DepthInv'
    OBVIOUS
  <1> USE DEF DepthInv, StackTypeOK, LimitLeavesSlop, NoStackOverflow
  <1>0. /\ Roomy(headroom) => headroom \in Nat
        /\ MaxFrames \in Nat /\ ErrorFrames \in Nat /\ Slop \in Nat /\ Cap \in Nat
        /\ Minimum \in Nat /\ MaxFrames + ErrorFrames <= Slop
    BY StackAssumption, SlopAssumption DEF Roomy
  <1>1. ASSUME NEW h \in Headrooms, EnterStackDepthCheck(h) PROVE DepthInv'
    <2>1. /\ Limit(h, max_stack_depth) \in Minimum..Cap
          /\ Roomy(h) => Limit(h, max_stack_depth) + Slop <= h
      BY LimitFits
    <2>2. ~overflow
      BY <1>1 DEF EnterStackDepthCheck
    <2> QED
      BY <1>0, <1>1, <2>1, <2>2 DEF EnterStackDepthCheck
  <1>2. ASSUME NEW k \in 1..MaxFrames, Descend(k) PROVE DepthInv'
    BY <1>0, <1>2 DEF Descend, Roomy
  <1>3. ASSUME NEW k \in 1..MaxFrames, Ascend(k) PROVE DepthInv'
    BY <1>0, <1>3 DEF Ascend
  <1>4. CASE CheckPasses
    BY <1>0, <1>4 DEF CheckPasses
  <1>5. CASE CheckFails
    BY <1>0, <1>5 DEF CheckFails, Roomy
  <1>6. CASE ExitStackDepthCheck
    BY <1>0, <1>6 DEF ExitStackDepthCheck
  <1>7. CASE UNCHANGED depth_vars
    BY <1>7 DEF depth_vars
  <1> QED
    BY <1>1, <1>2, <1>3, <1>4, <1>5, <1>6, <1>7 DEF StackNext

\* The invariant, for calls from any stacks, in any order.
THEOREM StackInvariant == StackSpec => []DepthInv
  BY DepthInit, DepthNext, PTL DEF StackSpec

\* check_stack_depth raises its error before the stack ends, in every call that
\* starts with enough of it, whatever limits earlier calls have left behind.
THEOREM StackSafety == StackSpec => []NoStackOverflow
  <1>1. DepthInv => NoStackOverflow
    BY DEF DepthInv
  <1> QED
    BY <1>1, StackInvariant, PTL

\* set_max_stack_depth replaces the limit of every earlier call, unless it finds
\* too little stack to do so.
THEOREM LimitLeavesSlopHolds == StackSpec => []LimitLeavesSlop
  <1>1. DepthInv => LimitLeavesSlop
    BY DEF DepthInv
  <1> QED
    BY <1>1, StackInvariant, PTL

\* The state has its type, with the limit between the default and the cap.
THEOREM StackTypeCorrect == StackSpec => []StackTypeOK
  <1>1. DepthInv => StackTypeOK
    BY DEF DepthInv
  <1> QED
    BY <1>1, StackInvariant, PTL
=============================================================================
