-------------------------- MODULE PopulationProofs --------------------------
(***************************************************************************)
(* What Population guarantees for every number of layers, identities,      *)
(* requests and populations, as long as the runtime keeps one request at a *)
(* time (MaxLive = 1), which is what it is made for (runtime.py:57,        *)
(* compat.py:118).                                                         *)
(***************************************************************************)
EXTENDS Population, FiniteSetTheorems, TLAPS

\* The pages of a snapshot, the commit marker last.
LEMMA NumberFacts ==
    /\ Marker \in Nat /\ Marker >= 2 /\ 0 \in Numbers /\ Marker \in Numbers
    /\ \A n : n \in Numbers <=> n \in Nat /\ n =< Marker
    /\ \A l \in Nat : l < Layers => KvPage(l) \in Numbers /\ StatePage(l) \in Numbers
                                    /\ KvPage(l) # Marker /\ StatePage(l) # Marker
  BY LayersAssumption DEF Numbers, Marker, KvPage, StatePage

-----------------------------------------------------------------------------
(* Types *)

\* A call starts in its type,
LEMMA CallType == ASSUME NEW r \in Requests \cup {None},
                         NEW at \in {"none", "preflight", "recover", "reuse", "dense"}
                  PROVE Call(at, r) \in RunType
  BY NumberFacts DEF Call, RunType

\* so does a clean-up of a request's pages,
LEMMA DiscardType == ASSUME TypeOK, NEW r \in Requests, NEW plan \in Plans \cup {None},
                            NEW then \in {"end", "preflight", "retry"}
                     PROVE Discard(r, plan, then) \in RunType
<1>1. CASE requests[r] = None
  BY <1>1, NumberFacts DEF Discard, RunType
<1>2. CASE requests[r] # None
  <2>1. requests[r] \in RequestType
    BY <1>2 DEF TypeOK
  <2>2. requests[r].identity \in Identities /\ requests[r].created \in SUBSET Numbers
    BY <2>1 DEF RequestType
  <2> QED
    BY <1>2, <2>2, NumberFacts DEF Discard, RunType
<1> QED
  BY <1>1, <1>2

\* and a live request has a state.
LEMMA StateType == ASSUME TypeOK, run.req \in Live
                   PROVE /\ run.req \in Requests /\ State \in RequestType
                         /\ Identity \in Identities /\ State # None
  BY DEF TypeOK, Live, State, Identity, RequestType

\* The initial state is well typed.
LEMMA TypeInit == Init => TypeOK
<1> SUFFICES ASSUME Init PROVE TypeOK
  OBVIOUS
<1>1. run \in RunType
  BY CallType DEF Init, NoRun
<1> QED
  BY <1>1, BoundAssumption DEF Init, TypeOK, Store!Init

\* Every step keeps the types, given what the stage of a call has in hand.
LEMMA TypeStep == TypeOK /\ Calling /\ Serial /\ [Next]_vars => TypeOK'
<1> SUFFICES ASSUME TypeOK, Calling, Serial, [Next]_vars PROVE TypeOK'
  OBVIOUS
<1> USE NumberFacts
<1>1. ASSUME NEW r \in Requests, NEW p \in Plans \cup {None}, NEW then \in {"end", "preflight"},
             Pop(r, p, then)
      PROVE TypeOK'
  BY <1>1, DiscardType DEF TypeOK, Pop, store
<1>2. ASSUME NEW r \in Requests, Release(r) \/ \E p \in Plans : Run(r, p) PROVE TypeOK'
  BY <1>1, <1>2 DEF Release, Run
<1>3. CASE DiscardPage
  <2>1. PICK n \in Latest(run.left) :
          \/ /\ \/ Store!Delete(<<run.owner, n>>)
                \/ content[<<run.owner, n>>] = None /\ UNCHANGED store
             /\ run' = [run EXCEPT !.left = @ \ {n}]
          \/ /\ <<run.owner, n>> \in safe
             /\ run' = [run EXCEPT !.left = @ \ {n}, !.deferred = @ \cup {n}]
             /\ UNCHANGED store
    BY <1>3 DEF DiscardPage
  <2>2. n \in Numbers
    BY <2>1 DEF TypeOK, RunType, Latest
  <2>3. run' \in RunType
    <3>1. run.left \ {n} \in SUBSET Numbers /\ run.deferred \cup {n} \in SUBSET Numbers
      BY <2>2 DEF TypeOK, RunType
    <3>2. CASE run' = [run EXCEPT !.left = @ \ {n}]
      BY <3>1, <3>2 DEF TypeOK, RunType
    <3>3. CASE run' = [run EXCEPT !.left = @ \ {n}, !.deferred = @ \cup {n}]
      BY <3>1, <3>3 DEF TypeOK, RunType
    <3> QED
      BY <2>1, <3>2, <3>3
  <2>4. /\ content' \in [Identities \X Numbers -> 1 .. MaxPopulations \cup {None}]
        /\ safe' \subseteq Identities \X Numbers
    <3>1. CASE Store!Delete(<<run.owner, n>>)
      <4>1. content' = [content EXCEPT ![<<run.owner, n>>] = None] /\ safe' \subseteq safe
        BY <3>1 DEF Store!Delete
      <4> QED
        BY <4>1 DEF TypeOK
    <3>2. CASE UNCHANGED store
      BY <3>2 DEF TypeOK, store
    <3> QED
      BY <2>1, <3>1, <3>2
  <2> QED
    BY <1>3, <2>3, <2>4 DEF TypeOK, DiscardPage
<1>4. CASE DiscardDone
  <2>1. CASE run.then = "end"
    BY <1>4, <2>1, CallType DEF TypeOK, DiscardDone, NoRun, store
  <2>2. CASE run.then = "preflight"
    <3>1. run.plan \in Plans /\ run.req \in Requests
      BY <1>4, <2>2 DEF DiscardDone, Calling, Starting
    <3>2. run' \in RunType
      BY <1>4, <2>2, <3>1 DEF DiscardDone, Call, RunType
    <3> QED
      BY <1>4, <2>2, <3>2 DEF TypeOK, DiscardDone, store
  <2>3. CASE run.then = "retry"
    <3>1. run.req \in Live
      BY <1>4, <2>3 DEF DiscardDone, Serial, Retrying
    <3>2. run.deferred \in SUBSET Numbers
      BY DEF TypeOK, RunType
    <3>3. run' \in RunType /\ UNCHANGED <<store, populations>>
      BY <1>4, <2>3, <3>1, StateType, CallType DEF DiscardDone
    <3>4. requests' \in [Requests -> RequestType \cup {None}]
      BY <1>4, <2>3, <3>1, <3>2, StateType DEF TypeOK, DiscardDone, RequestType, State
    <3> QED
      BY <3>3, <3>4 DEF TypeOK, store
  <2> QED
    BY <1>4, <2>1, <2>2, <2>3 DEF DiscardDone
<1>5. CASE Preflight
  <2>1. run.plan \in Plans /\ run.req \in Requests
    BY <1>5 DEF Preflight, Calling, Starting
  <2>2. run' \in RunType
    BY <1>5, <2>1, CallType DEF Preflight
  <2>3. run.plan.identity \in Identities
    BY <2>1 DEF Plans
  <2>4. requests' \in [Requests -> RequestType \cup {None}]
    BY <1>5, <2>1, <2>3 DEF TypeOK, Preflight, RequestType
  <2> QED
    BY <1>5, <2>2, <2>4 DEF TypeOK, Preflight, store
<1>6. CASE PreflightRaises
  BY <1>6, CallType DEF TypeOK, PreflightRaises, store, NoRun
<1>7. CASE RecoverPage
  BY <1>7 DEF TypeOK, RecoverPage, store, RunType, Store!Delete
<1>8. CASE RecoverDone
  <2>1. run' \in RunType
    BY <1>8 DEF TypeOK, RecoverDone, RunType
  <2>2. populations' \in 0 .. MaxPopulations
    BY <1>8, BoundAssumption DEF TypeOK, RecoverDone, Calling
  <2> QED
    BY <1>8, <2>1, <2>2 DEF TypeOK, RecoverDone, store
<1>9. CASE PutPage
  <2>1. run.req \in Live /\ populations \in 1 .. MaxPopulations /\ run.n \in Numbers
    BY <1>9, BoundAssumption DEF PutPage, Serial, Prefilling, Calling, TypeOK, RunType
  <2>2. run' \in RunType
    BY <1>9 DEF PutPage, TypeOK, RunType
  <2>3. requests' \in [Requests -> RequestType \cup {None}]
    BY <1>9, <2>1, StateType DEF PutPage, TypeOK, RequestType, Created, State
  <2> QED
    BY <1>9, <2>1, <2>2, <2>3, StateType DEF PutPage, TypeOK, Store!Put
<1>10. CASE SpillPage
  <2>1. run.n + 1 \in Numbers
    BY <1>10 DEF TypeOK, SpillPage, RunType
  <2>2. run' \in RunType
    BY <1>10, <2>1 DEF TypeOK, SpillPage, RunType
  <2> QED
    BY <1>10, <2>2 DEF TypeOK, SpillPage, Store!Acknowledge, Store!Stored
<1>11. CASE Commit
  <2>1. run.req \in Live
    BY <1>11 DEF Commit, Serial, Prefilling
  <2>2. requests' \in [Requests -> RequestType \cup {None}]
    BY <1>11, <2>1, StateType DEF Commit, TypeOK, RequestType, Committed
  <2> QED
    BY <1>11, <2>2, CallType DEF Commit, TypeOK, NoRun, Store!Acknowledge, Store!Stored
<1>12. CASE ReuseLayer
  <2>1. run.req \in Live
    BY <1>12 DEF ReuseLayer, Serial, Prefilling
  <2>2. run' \in RunType
    <3>1. run.n + 1 \in Numbers
      BY <1>12, LayersAssumption DEF ReuseLayer, TypeOK, RunType, Marker
    <3> QED
      BY <1>12, <3>1 DEF ReuseLayer, TypeOK, RunType
  <2>3. PICK read \in {{KvPage(run.n)}, {KvPage(run.n), StatePage(run.n)}} :
            /\ read \subseteq Present(Identity)
            /\ requests' = [requests EXCEPT ![run.req].from =
                               @ \cup {content[<<Identity, n>>] : n \in read}]
    BY <1>12 DEF ReuseLayer
  <2>4. {content[<<Identity, n>>] : n \in read} \in SUBSET (1 .. MaxPopulations)
    BY <2>1, <2>3, StateType DEF TypeOK, Present
  <2>5. requests' \in [Requests -> RequestType \cup {None}]
    BY <2>1, <2>3, <2>4, StateType DEF TypeOK, RequestType, State
  <2> QED
    BY <1>12, <2>2, <2>5 DEF TypeOK, ReuseLayer, store
<1>13. CASE PrefillDone
  <2>1. run.req \in Live
    BY <1>13 DEF PrefillDone, Serial, Prefilling
  <2>2. requests' \in [Requests -> RequestType \cup {None}]
    BY <1>13, <2>1, StateType DEF PrefillDone, TypeOK, RequestType, State
  <2> QED
    BY <1>13, <2>2, CallType DEF PrefillDone, TypeOK, NoRun, store
<1>14. CASE Fallback
  <2>1. run.req \in Live
    BY <1>14 DEF Fallback, Serial
  <2>2. requests' \in [Requests -> RequestType \cup {None}]
    BY <1>14, <2>1, StateType DEF Fallback, TypeOK, RequestType, Retried
  <2> QED
    BY <1>14, <2>1, <2>2, StateType, DiscardType DEF Fallback, TypeOK, store
<1>15. CASE Raise
  BY <1>15, CallType DEF TypeOK, Raise, store, NoRun
<1>16. CASE Restart
  BY <1>16, CallType DEF TypeOK, Restart, NoRun, Store!Restart, Store!Stored
<1>17. CASE UNCHANGED vars
  BY <1>17 DEF TypeOK, vars, store
<1> QED
  BY <1>2, <1>3, <1>4, <1>5, <1>6, <1>7, <1>8, <1>9, <1>10, <1>11, <1>12, <1>13, <1>14,
     <1>15, <1>16, <1>17 DEF Next, Step

-----------------------------------------------------------------------------
(* The invariant, one call of the store or one stage of a run at a time *)

IInv == TypeOK /\ CommittedComplete /\ Consistent

\* A page that is deleted, or was not there, is gone, and the others stay.
LEMMA Deleted ==
    ASSUME TypeOK, Calling, NEW i \in Identities, NEW n \in Numbers,
           Store!Delete(<<i, n>>) \/ (content[<<i, n>>] = None /\ UNCHANGED store)
    PROVE  /\ \A j \in Identities, m \in Numbers :
                 content'[<<j, m>>] = IF j = i /\ m = n THEN None ELSE content[<<j, m>>]
           /\ safe' = safe \ {<<i, n>>}
<1>1. CASE Store!Delete(<<i, n>>)
  BY <1>1 DEF Store!Delete, TypeOK
<1>2. CASE content[<<i, n>>] = None /\ UNCHANGED store
  BY <1>2 DEF Store!Stored, Calling, store
<1> QED BY <1>1, <1>2

\* Popping the only request there may be, by release or for a new run, leaves
\* none, and hands over its uncommitted pages.
LEMMA PopStep ==
    ASSUME IInv, NEW r \in Requests, \A q \in Live : q = r, NEW p \in Plans \cup {None},
           NEW then \in {"end", "preflight"}, Pop(r, p, then),
           then = "preflight" => p \in Plans /\ (p.operation = "populate" => populations < MaxPopulations)
    PROVE  CommittedComplete' /\ Consistent'
<1> USE DEF IInv, Consistent
<1>1. Live' = {} /\ UNCHANGED <<content, safe, populations>> /\ run' = Discard(r, p, then)
  BY DEF Pop, Live, TypeOK, store
<1>2. /\ run'.at = "discard" /\ run'.then = then /\ run'.deferred = {} /\ run'.plan = p
      /\ run'.req = r
      /\ run'.left # {} => /\ r \in Live /\ run'.left = requests[r].created
                           /\ run'.owner = requests[r].identity
  BY <1>1 DEF Discard, Live
<1>3. CommittedComplete'
  BY <1>1 DEF CommittedComplete, Present
<1>4. Calling'
  BY <1>1, <1>2 DEF Calling, Store!Stored, Starting, TypeOK, RequestType, Live
<1>5. Serial'
  BY <1>1, <1>2 DEF Serial, Retrying, Prefilling
<1>6. OwnUncommitted'
  BY <1>1, <1>2 DEF OwnUncommitted, Present
<1>7. Populating'
  BY <1>1, <1>2 DEF Populating
<1>8. Reusing'
  BY <1>1, <1>2 DEF Reusing, Prefilling
<1> QED BY <1>3, <1>4, <1>5, <1>6, <1>7, <1>8

\* release keeps the invariant.
LEMMA ReleaseStep == ASSUME IInv, NEW r \in Requests, Release(r)
                     PROVE  CommittedComplete' /\ Consistent'
<1>1. \A q \in Live : q = r
  BY DEF IInv, Consistent, Serial, Release, Live
<1> QED BY <1>1, PopStep DEF Release

\* A new run keeps it: with MaxLive = 1 an unknown request finds no other alive.
LEMMA RunStep == ASSUME MaxLive = 1, IInv, NEW r \in Requests, NEW p \in Plans, Run(r, p)
                 PROVE  CommittedComplete' /\ Consistent'
<1>1. \A q \in Live : q = r
  <2>1. CASE r \in Live
    BY <2>1 DEF IInv, Consistent, Serial
  <2>2. CASE Cardinality(Live) < 1
    <3>1. IsFiniteSet(Live)
      BY FiniteAssumption, FS_Subset DEF Live
    <3>2. Cardinality(Live) \in Nat
      BY <3>1, FS_CardinalityType
    <3>3. Cardinality(Live) = 0
      BY <2>2, <3>2
    <3> QED BY <3>1, <3>3, FS_EmptySet
  <2> QED BY <2>1, <2>2 DEF Run
<1> QED BY <1>1, PopStep DEF Run

\* Cleaning up keeps it: a marker among the pages goes before all the others.
LEMMA DiscardPageStep == ASSUME IInv, DiscardPage PROVE CommittedComplete' /\ Consistent'
<1> USE DEF IInv, Consistent
<1> DEFINE o == run.owner
<1>1. PICK n \in Latest(run.left) :
          \/ /\ \/ Store!Delete(<<o, n>>)
                \/ content[<<o, n>>] = None /\ UNCHANGED store
             /\ run' = [run EXCEPT !.left = @ \ {n}]
          \/ /\ <<o, n>> \in safe
             /\ run' = [run EXCEPT !.left = @ \ {n}, !.deferred = @ \cup {n}]
             /\ UNCHANGED store
  BY DEF DiscardPage
<1>2. /\ run.at = "discard" /\ n \in run.left /\ run.left # {} /\ n \in Numbers
      /\ UNCHANGED <<populations, requests>>
      /\ \A m \in run.left : m =< n
  BY <1>1 DEF DiscardPage, Latest, TypeOK, RunType
<1>3. o \in Identities
  BY <1>2 DEF Calling
<1>4. /\ run'.at = "discard" /\ run'.req = run.req /\ run'.owner = o /\ run'.then = run.then
      /\ run'.plan = run.plan
      /\ run'.left = run.left \ {n} /\ run'.deferred \subseteq run.deferred \cup {n}
      /\ run'.deferred # run.deferred => <<o, n>> \in safe
  BY <1>1, <1>2 DEF TypeOK, RunType
\* The marker is not durable, and if it is there it is the page that goes.
<1>5. <<o, Marker>> \notin safe /\ (Marker \in Present(o) => n = Marker)
  <2>1. Marker \in Present(o) => Marker \in run.left
    BY <1>2 DEF OwnUncommitted
  <2>2. Marker \in Present(o) => Marker =< n /\ n =< Marker
    BY <1>2, <2>1, NumberFacts
  <2> QED BY <1>2, <2>2, NumberFacts DEF OwnUncommitted
<1>6. \/ /\ \A j \in Identities, m \in Numbers :
                content'[<<j, m>>] = IF j = o /\ m = n THEN None ELSE content[<<j, m>>]
         /\ safe' = safe \ {<<o, n>>}
         /\ run'.deferred = run.deferred
      \/ <<o, n>> \in safe /\ UNCHANGED <<content, safe>>
  <2>1. CASE <<o, n>> \in safe /\ UNCHANGED store
    BY <2>1 DEF store
  <2>2. CASE /\ Store!Delete(<<o, n>>) \/ (content[<<o, n>>] = None /\ UNCHANGED store)
             /\ run' = [run EXCEPT !.left = @ \ {n}]
    BY <1>2, <1>3, <2>2, Deleted DEF TypeOK, RunType
  <2> QED BY <1>1, <2>1, <2>2
<1>7. \A j \in Identities, m \in Numbers :
         /\ content[<<j, m>>] = None => content'[<<j, m>>] = None
         /\ j # o => content'[<<j, m>>] = content[<<j, m>>]
  BY <1>6
<1>8. safe' \subseteq safe
  BY <1>6
<1>9. content'[<<o, Marker>>] = None
  BY <1>5, <1>6, <1>3, NumberFacts DEF Present
<1>10. CommittedComplete'
  <2> SUFFICES ASSUME NEW i \in Identities, content'[<<i, Marker>>] # None, NEW m \in 0 .. Marker - 1
               PROVE  content'[<<i, m>>] = content'[<<i, Marker>>] /\ <<i, m>> \in safe'
    BY DEF CommittedComplete, Present
  <2>1. i # o /\ content[<<i, Marker>>] # None /\ m \in Numbers
    BY <1>7, <1>9, NumberFacts
  <2>2. content[<<i, m>>] = content[<<i, Marker>>] /\ <<i, m>> \in safe
    BY <2>1, NumberFacts DEF CommittedComplete, Present
  <2> QED BY <1>6, <2>1, <2>2, NumberFacts
<1>11. Calling'
  <2>1. safe' \subseteq Store!Stored'
    BY <1>3, <1>6, <1>2 DEF Calling, Store!Stored, TypeOK
  <2>2. /\ run'.then # "none"
        /\ run'.left \cup run'.deferred # {} => run'.owner \in Identities
    BY <1>2, <1>3, <1>4 DEF Calling
  <2>3. Starting' => /\ run'.plan \in Plans /\ run'.req \in Requests
                     /\ run'.plan.operation = "populate" => populations' < MaxPopulations
    BY <1>2, <1>4 DEF Calling, Starting
  <2> QED BY <1>4, <2>1, <2>2, <2>3 DEF Calling
<1>12. Live' = Live /\ (run.then # "retry" => Live = {})
  BY <1>2 DEF Live, Serial, Retrying
<1>13. Serial'
  BY <1>2, <1>4, <1>12 DEF Serial, Retrying, Prefilling, State, Identity
<1>14. OwnUncommitted'
  <2>1. ASSUME NEW r \in Live', requests'[r].created # {}
        PROVE  /\ <<requests'[r].identity, Marker>> \notin safe'
               /\ content'[<<requests'[r].identity, Marker>>] # None => Marker \in requests'[r].created
    <3>1. requests'[r] = requests[r] /\ requests[r].identity \in Identities /\ r \in Live
      BY <1>2, <1>12 DEF Live, TypeOK, RequestType
    <3> QED BY <2>1, <3>1, <1>7, <1>8, NumberFacts DEF OwnUncommitted, Present
  <2>2. <<o, Marker>> \notin safe' /\ content'[<<o, Marker>>] = None
    BY <1>5, <1>8, <1>9
  <2> QED BY <2>1, <2>2, <1>4 DEF OwnUncommitted, Present
<1>15. Populating'
  BY <1>4 DEF Populating
<1>16. Reusing'
  <2>1. \A r \in Live : ~requests[r].reuse
    BY <1>2, <1>12 DEF Serial, Retrying, State
  <2> QED BY <1>2, <1>4, <1>12, <2>1 DEF Reusing, Prefilling
<1> QED BY <1>10, <1>11, <1>13, <1>14, <1>15, <1>16

\* After the clean-up: the call returns, the run starts, or the prefill is retried.
LEMMA DiscardDoneStep == ASSUME IInv, DiscardDone PROVE CommittedComplete' /\ Consistent'
<1> USE DEF IInv, Consistent
<1>1. run.at = "discard" /\ run.left = {} /\ UNCHANGED <<content, safe, populations>>
  BY DEF DiscardDone, store
<1>2. CommittedComplete' /\ (safe \subseteq Store!Stored)'
  BY <1>1 DEF CommittedComplete, Present, Calling, Store!Stored
<1>3. CASE run.then = "end"
  <2>1. run' = NoRun /\ requests' = requests /\ Live' = {}
    BY <1>1, <1>3 DEF DiscardDone, Serial, Retrying, Live
  <2>2. run'.at = "none"
    BY <2>1 DEF NoRun, Call
  <2> QED BY <1>2, <2>1, <2>2 DEF Calling, Starting, Serial, Retrying, Prefilling, OwnUncommitted,
                                  Populating, Reusing
<1>4. CASE run.then = "preflight"
  <2>1. requests' = requests /\ Live' = {}
    BY <1>1, <1>4 DEF DiscardDone, Serial, Retrying, Live
  <2>2. run'.at = "preflight" /\ run'.req = run.req /\ run'.plan = run.plan
    BY <1>1, <1>4 DEF DiscardDone, Call
  <2>3. Calling'
    BY <1>1, <1>2, <1>4, <2>2 DEF Calling, Starting
  <2> QED BY <1>2, <2>1, <2>2, <2>3 DEF Serial, Retrying, Prefilling, OwnUncommitted,
                                        Populating, Reusing
<1>5. CASE run.then = "retry"
  <2>1. /\ run' = Call("dense", run.req)
        /\ requests' = [requests EXCEPT ![run.req].created = run.deferred]
    BY <1>1, <1>5 DEF DiscardDone
  <2>2. run'.at = "dense" /\ run'.req = run.req
    BY <2>1 DEF Call
  <2>3. /\ run.req \in Requests /\ State \in RequestType /\ Live = {run.req}
        /\ run.owner = Identity /\ ~State.reuse /\ ~State.sampled
    BY <1>1, <1>5, StateType DEF Serial, Retrying
  <2>4. /\ requests'[run.req] = [State EXCEPT !.created = run.deferred]
        /\ \A r \in Requests : r # run.req => requests'[r] = requests[r]
    BY <2>1, <2>3 DEF TypeOK, State
  <2>5. /\ requests'[run.req].created = run.deferred /\ requests'[run.req].identity = Identity
        /\ requests'[run.req].reuse = State.reuse /\ requests'[run.req].from = State.from
        /\ requests'[run.req].sampled = State.sampled
        /\ State' = requests'[run.req] /\ Identity' = Identity
    BY <2>2, <2>3, <2>4 DEF RequestType, Identity, State
  <2>6. requests'[run.req] # None
    <3>1. requests'[run.req] \in RequestType
      BY <2>3, <2>4 DEF RequestType, TypeOK, RunType
    <3> QED BY <3>1, NoneAssumption
  <2>7. Live' = {run.req}
    BY <2>3, <2>4, <2>6 DEF Live
  <2>8. Calling'
    BY <1>2, <2>2 DEF Calling, Starting
  <2>9. Serial'
    BY <2>2, <2>3, <2>5, <2>7 DEF Serial, Retrying, Prefilling
  <2>10. OwnUncommitted'
    BY <1>1, <2>2, <2>3, <2>5, <2>7 DEF OwnUncommitted, Present
  <2>11. Populating'
    BY <2>2 DEF Populating
  <2>12. Reusing'
    <3>1. State'.from = {} /\ ~State'.reuse
      BY <2>3, <2>5 DEF Reusing, State
    <3> QED BY <2>2, <2>3, <2>5, <2>7, <3>1 DEF Reusing, Prefilling
  <2> QED BY <1>2, <2>8, <2>9, <2>10, <2>11, <2>12
<1> QED BY <1>3, <1>4, <1>5 DEF DiscardDone

\* The decision to reuse, to populate or to prefill in full keeps it.
LEMMA PreflightStep == ASSUME IInv, Preflight PROVE CommittedComplete' /\ Consistent'
<1> USE DEF IInv, Consistent
<1> DEFINE p == run.plan
           reuse == p.operation = "reuse" /\ Hit(p.identity) /\ ~p.replay
           write == /\ p.operation = "populate" /\ ~Hit(p.identity)
                    /\ p.identity \in Profiled /\ ~p.replay
           new == [identity |-> p.identity, reuse |-> reuse, write |-> write, created |-> {},
                   from |-> {}, fallback |-> FALSE, sampled |-> FALSE]
           stage == IF write THEN "recover" ELSE IF reuse THEN "reuse" ELSE "dense"
<1>1. /\ run.at = "preflight" /\ UNCHANGED <<content, safe, populations>>
      /\ requests' = [requests EXCEPT ![run.req] = new]
      /\ run' = Call(stage, run.req)
  BY DEF Preflight, store
<1>2. p \in Plans /\ run.req \in Requests /\ (p.operation = "populate" => populations < MaxPopulations)
  BY <1>1 DEF Calling, Starting
<1>3. p.identity \in Identities
  BY <1>2 DEF Plans
<1>b. reuse \in BOOLEAN /\ write \in BOOLEAN
  BY Zenon
<1>c. (reuse => Hit(p.identity)) /\ (write => ~reuse /\ p.operation = "populate")
  OBVIOUS
<1> HIDE DEF reuse, write
<1>4. new \in RequestType /\ new # None
  <2>1. new \in RequestType
    BY <1>3, <1>b DEF RequestType
  <2> QED BY <2>1, NoneAssumption
<1>5. /\ new.identity = p.identity /\ new.reuse = reuse /\ new.created = {} /\ new.from = {}
      /\ new.sampled = FALSE
  OBVIOUS
<1> HIDE DEF new
<1>6. requests'[run.req] = new /\ \A r \in Requests : r # run.req => requests'[r] = None
  <2>1. Live = {}
    BY <1>1 DEF Serial, Retrying
  <2> QED BY <1>1, <1>2, <2>1 DEF TypeOK, Live
<1>7. Live' = {run.req}
  BY <1>2, <1>4, <1>6 DEF Live
<1>8. run'.at = stage /\ run'.req = run.req /\ run'.n = 0
  BY <1>1 DEF Call
<1>9. State' = new /\ Identity' = p.identity
  BY <1>5, <1>6, <1>8 DEF State, Identity
<1>10. CommittedComplete' /\ (safe \subseteq Store!Stored)'
  BY <1>1 DEF CommittedComplete, Present, Calling, Store!Stored
<1>11. Calling'
  BY <1>1, <1>2, <1>8, <1>10, <1>c DEF Calling, Starting
<1>12. Serial'
  BY <1>5, <1>7, <1>8, <1>9 DEF Serial, Retrying, Prefilling
<1>13. OwnUncommitted'
  BY <1>5, <1>6, <1>7, <1>8 DEF OwnUncommitted
<1>14. Populating'
  BY <1>8 DEF Populating
<1>15. Reusing'
  <2>1. reuse => Present(p.identity) = Numbers
    BY <1>c DEF Hit
  <2>2. reuse => {n \in Numbers : content'[<<p.identity, n>>] # None} = Numbers
    BY <1>1, <2>1 DEF Present
  <2>3. ASSUME reuse PROVE Present(Identity)' = Numbers
    BY <1>9, <2>2, <2>3 DEF Present
  <2> QED BY <1>b, <1>c, <1>5, <1>6, <1>7, <1>8, <1>9, <2>2, <2>3 DEF Reusing, Prefilling, Present
<1> QED BY <1>10, <1>11, <1>12, <1>13, <1>14, <1>15

\* A call that ends in an error keeps it.
LEMMA OverStep ==
    ASSUME IInv, UNCHANGED <<content, safe, populations, requests>>, run' = NoRun
    PROVE  CommittedComplete' /\ Consistent'
<1> USE DEF IInv, Consistent
<1>1. run'.at = "none" /\ Live' = Live
  BY DEF NoRun, Call, Live
<1>2. CommittedComplete' /\ (safe \subseteq Store!Stored)'
  BY DEF CommittedComplete, Present, Calling, Store!Stored
<1>3. Calling' /\ Serial' /\ Populating'
  BY <1>1, <1>2 DEF Calling, Starting, Serial, Retrying, Prefilling, Populating
<1>4. OwnUncommitted' /\ Reusing'
  BY <1>1 DEF OwnUncommitted, Reusing, Present, Prefilling
<1> QED BY <1>2, <1>3, <1>4

\* Removing what an uncommitted population left keeps it: there is no marker.
LEMMA RecoverPageStep == ASSUME IInv, RecoverPage PROVE CommittedComplete' /\ Consistent'
<1> USE DEF IInv, Consistent
<1>1. /\ run.at = "recover" /\ run.n < Marker /\ content[<<Identity, Marker>>] = None
      /\ Store!Delete(<<Identity, run.n>>) \/ (content[<<Identity, run.n>>] = None /\ UNCHANGED store)
      /\ run' = [run EXCEPT !.n = @ + 1] /\ UNCHANGED <<populations, requests>>
  BY NumberFacts DEF RecoverPage, Present
<1>2. /\ run.req \in Live /\ Identity \in Identities /\ run.n \in Nat /\ run.n \in Numbers
      /\ ~State.reuse /\ State \in RequestType
  BY <1>1, StateType, NumberFacts DEF Serial, Prefilling, Reusing, TypeOK, RunType
<1>3. /\ run'.at = "recover" /\ run'.n = run.n + 1 /\ run'.req = run.req
  BY <1>1 DEF TypeOK, RunType
<1>4. /\ \A j \in Identities, m \in Numbers :
            content'[<<j, m>>] = IF j = Identity /\ m = run.n THEN None ELSE content[<<j, m>>]
      /\ safe' = safe \ {<<Identity, run.n>>}
  BY <1>1, <1>2, Deleted
<1>5. State' = State /\ Identity' = Identity /\ Live' = Live
  BY <1>1, <1>3 DEF State, Identity, Live
<1>6. CommittedComplete'
  <2> SUFFICES ASSUME NEW i \in Identities, content'[<<i, Marker>>] # None, NEW m \in 0 .. Marker - 1
               PROVE  content'[<<i, m>>] = content'[<<i, Marker>>] /\ <<i, m>> \in safe'
    BY DEF CommittedComplete, Present
  <2>1. i # Identity /\ content[<<i, Marker>>] # None /\ m \in Numbers
    BY <1>1, <1>4, NumberFacts
  <2>2. content[<<i, m>>] = content[<<i, Marker>>] /\ <<i, m>> \in safe
    BY <2>1, NumberFacts DEF CommittedComplete, Present
  <2> QED BY <1>4, <2>1, <2>2, NumberFacts
<1>7. Calling'
  <2>1. (safe \subseteq Store!Stored)'
    BY <1>2, <1>4 DEF Calling, Store!Stored, TypeOK
  <2> QED BY <1>1, <1>3, <2>1 DEF Calling, Starting
<1>8. Serial'
  BY <1>2, <1>3, <1>1, <1>5 DEF Serial, Retrying, Prefilling
<1>9. OwnUncommitted'
  <2> SUFFICES ASSUME NEW r \in Live, requests[r].created # {}
      PROVE  /\ <<requests[r].identity, Marker>> \notin safe'
             /\ content'[<<requests[r].identity, Marker>>] # None => Marker \in requests[r].created
    BY <1>1, <1>3, <1>5 DEF OwnUncommitted, Present
  <2>1. requests[r].identity \in Identities
    BY DEF Live, TypeOK, RequestType
  <2> QED BY <2>1, <1>4, NumberFacts DEF OwnUncommitted, Present
<1>10. Populating'
  <2>1. \A m \in 0 .. run.n : content'[<<Identity, m>>] = None
    BY <1>1, <1>2, <1>4, NumberFacts DEF Populating, Present
  <2>2. content'[<<Identity, Marker>>] = None
    BY <1>1, <1>2, <1>4, NumberFacts
  <2> QED BY <1>2, <1>3, <1>5, <2>1, <2>2 DEF Populating, Present
<1>11. Reusing'
  <2>1. Live = {run.req} /\ State.from = {}
    BY <1>2 DEF Serial, Reusing, State
  <2> QED BY <1>1, <1>2, <1>3, <1>5, <2>1 DEF Reusing, Prefilling, State
<1> QED BY <1>6, <1>7, <1>8, <1>9, <1>10, <1>11

\* The population starts with none of its pages there.
LEMMA RecoverDoneStep == ASSUME IInv, RecoverDone PROVE CommittedComplete' /\ Consistent'
<1> USE DEF IInv, Consistent
<1>1. /\ run.at = "recover" /\ run.n = Marker /\ UNCHANGED <<content, safe, requests>>
      /\ run' = [run EXCEPT !.at = "put", !.n = 0] /\ populations' = populations + 1
  BY DEF RecoverDone, Recovered, store
<1>2. /\ run.req \in Live /\ Identity \in Identities /\ ~State.reuse
  BY <1>1, StateType DEF Serial, Prefilling, Reusing
<1>3. run'.at = "put" /\ run'.n = 0 /\ run'.req = run.req
  BY <1>1 DEF TypeOK, RunType
<1>4. State' = State /\ Identity' = Identity /\ Live' = Live
  BY <1>1, <1>3 DEF State, Identity, Live
<1>5. CommittedComplete' /\ (safe \subseteq Store!Stored)'
  BY <1>1 DEF CommittedComplete, Present, Calling, Store!Stored
<1>6. Calling'
  BY <1>1, <1>3, <1>5 DEF Calling, Starting, TypeOK
<1>7. Serial'
  BY <1>1, <1>2, <1>3, <1>4 DEF Serial, Retrying, Prefilling
<1>8. OwnUncommitted'
  BY <1>1, <1>3, <1>4 DEF OwnUncommitted, Present
<1>9. Populating'
  <2>1. \A m \in Numbers : content[<<Identity, m>>] = None
    BY <1>1, NumberFacts DEF Populating, Present
  <2>2. <<Identity, 0>> \notin safe
    BY <2>1, NumberFacts DEF Calling, Store!Stored
  <2> QED BY <1>1, <1>3, <1>4, <2>1, <2>2, NumberFacts DEF Populating, Present
<1>10. Reusing'
  <2>1. Live = {run.req} /\ State.from = {}
    BY <1>2 DEF Serial, Reusing, State
  <2> QED BY <1>1, <1>2, <1>3, <1>4, <2>1 DEF Reusing, Prefilling, State
<1> QED BY <1>5, <1>6, <1>7, <1>8, <1>9, <1>10

\* Changing the state of the request of the run changes no other live request.
LEMMA Updated ==
    ASSUME TypeOK, Serial, run.req \in Live, NEW q \in RequestType,
           requests' = [requests EXCEPT ![run.req] = q]
    PROVE  /\ Live = {run.req} /\ Live' = {run.req} /\ requests'[run.req] = q
<1>1. run.req \in Requests /\ Live = {run.req}
  BY DEF Live, Serial
<1>2. requests'[run.req] = q /\ \A r \in Requests : r # run.req => requests'[r] = requests[r]
  BY <1>1 DEF TypeOK
<1> QED BY <1>1, <1>2, NoneAssumption DEF Live

\* A new page keeps it: the marker is put when all other pages are durable.
LEMMA PutPageStep == ASSUME IInv, PutPage PROVE CommittedComplete' /\ Consistent'
<1> USE DEF IInv, Consistent
<1> DEFINE q == [State EXCEPT !.created = Created(State)]
<1>1. /\ run.at = "put" /\ Store!Put(<<Identity, run.n>>, populations)
      /\ requests' = [requests EXCEPT ![run.req] = q]
      /\ run' = [run EXCEPT !.at = "spill"] /\ UNCHANGED populations
  BY DEF PutPage, State
<1>2. /\ run.req \in Live /\ Identity \in Identities /\ State \in RequestType /\ ~State.reuse
      /\ ~State.sampled /\ run.n \in Numbers /\ run.n \in Nat /\ populations > 0 /\ populations \in Nat
  BY <1>1, StateType, BoundAssumption, NumberFacts
     DEF Serial, Prefilling, Reusing, Calling, TypeOK, RunType
<1>3. /\ q \in RequestType /\ q.created = State.created \cup {run.n} /\ q.identity = Identity
      /\ q.reuse = State.reuse /\ q.from = State.from /\ q.sampled = State.sampled
  BY <1>2 DEF RequestType, Created, Identity
<1> HIDE DEF q
<1>4. Live = {run.req} /\ Live' = {run.req} /\ requests'[run.req] = q
  BY <1>1, <1>2, <1>3, Updated
<1>5. run'.at = "spill" /\ run'.req = run.req /\ run'.n = run.n
  BY <1>1 DEF TypeOK, RunType
<1>6. State' = q /\ Identity' = Identity
  BY <1>3, <1>4, <1>5 DEF State, Identity
<1>7. /\ \A j \in Identities, m \in Numbers :
            content'[<<j, m>>] = IF j = Identity /\ m = run.n THEN populations ELSE content[<<j, m>>]
      /\ safe' = safe /\ populations # None
  BY <1>1, <1>2, NoneAssumption DEF Store!Put, TypeOK
<1>8. /\ \A m \in 0 .. run.n - 1 : content[<<Identity, m>>] = populations /\ <<Identity, m>> \in safe
      /\ \A m \in run.n + 1 .. Marker : content[<<Identity, m>>] = None
      /\ <<Identity, run.n>> \notin safe
  BY <1>1, <1>2, NumberFacts DEF Populating, Present
<1>9. CommittedComplete'
  <2> SUFFICES ASSUME NEW i \in Identities, content'[<<i, Marker>>] # None, NEW m \in 0 .. Marker - 1
               PROVE  content'[<<i, m>>] = content'[<<i, Marker>>] /\ <<i, m>> \in safe'
    BY DEF CommittedComplete, Present
  <2>1. CASE i = Identity
    <3>1. run.n = Marker
      BY <1>2, <1>7, <1>8, <2>1, NumberFacts
    <3> QED BY <1>7, <1>8, <2>1, <3>1, NumberFacts
  <2>2. CASE i # Identity
    <3>1. content[<<i, m>>] = content[<<i, Marker>>] /\ <<i, m>> \in safe
      BY <1>7, <2>2, NumberFacts DEF CommittedComplete, Present
    <3> QED BY <1>7, <2>2, <3>1, NumberFacts
  <2> QED BY <2>1, <2>2
<1>10. Calling'
  <2>1. (safe \subseteq Store!Stored)'
    BY <1>2, <1>7 DEF Calling, Store!Stored, TypeOK
  <2> QED BY <1>1, <1>2, <1>5, <2>1 DEF Calling, Starting
<1>11. Serial'
  BY <1>2, <1>3, <1>4, <1>5, <1>6 DEF Serial, Retrying, Prefilling
<1>12. OwnUncommitted'
  <2>1. <<Identity, Marker>> \notin safe
    BY <1>2, <1>8, NumberFacts DEF Calling, Store!Stored
  <2>2. content'[<<Identity, Marker>>] # None => Marker \in q.created
    BY <1>2, <1>3, <1>7, <1>8, NumberFacts
  <2> QED BY <1>3, <1>4, <1>5, <1>7, <2>1, <2>2 DEF OwnUncommitted, Present
<1>13. Populating'
  <2>1. \A m \in 0 .. run.n - 1 : content'[<<Identity, m>>] = populations /\ <<Identity, m>> \in safe'
    BY <1>2, <1>7, <1>8, NumberFacts
  <2>2. \A m \in run.n + 1 .. Marker : content'[<<Identity, m>>] = None
    BY <1>2, <1>7, <1>8, NumberFacts
  <2>3. /\ content'[<<Identity, run.n>>] = populations /\ <<Identity, run.n>> \notin safe'
        /\ run.n \in q.created
    BY <1>2, <1>3, <1>7, <1>8
  <2> QED BY <1>1, <1>5, <1>6, <2>1, <2>2, <2>3 DEF Populating, Present
<1>14. Reusing'
  <2>1. State.from = {}
    BY <1>2 DEF Reusing, State
  <2> QED BY <1>2, <1>3, <1>4, <1>5, <1>6, <2>1 DEF Reusing, Prefilling
<1> QED BY <1>9, <1>10, <1>11, <1>12, <1>13, <1>14

\* So does a page that has become durable.
LEMMA SpillPageStep == ASSUME IInv, SpillPage PROVE CommittedComplete' /\ Consistent'
<1> USE DEF IInv, Consistent
<1>1. /\ run.at = "spill" /\ run.n < Marker /\ content' = content
      /\ safe' = safe \cup {<<Identity, run.n>>}
      /\ run' = [run EXCEPT !.at = "put", !.n = @ + 1] /\ UNCHANGED <<populations, requests>>
  BY DEF SpillPage, Store!Acknowledge
<1>2. /\ run.req \in Live /\ Identity \in Identities /\ ~State.reuse /\ State.from = {}
      /\ ~State.sampled /\ run.n \in Numbers /\ run.n \in Nat /\ Live = {run.req}
  <2>1. run.req \in Live /\ Live = {run.req} /\ ~State.sampled /\ ~State.reuse
    BY <1>1 DEF Serial, Prefilling, Reusing
  <2>2. State.from = {}
    BY <2>1 DEF Reusing, State
  <2>3. run.n \in Numbers
    BY DEF TypeOK, RunType
  <2> QED BY <2>1, <2>2, <2>3, StateType, NumberFacts
<1>3. run'.at = "put" /\ run'.n = run.n + 1 /\ run'.req = run.req
  BY <1>1 DEF TypeOK, RunType
<1>4. State' = State /\ Identity' = Identity /\ Live' = Live
  BY <1>1, <1>3 DEF State, Identity, Live
<1>5. /\ \A m \in 0 .. run.n - 1 : content[<<Identity, m>>] = populations /\ <<Identity, m>> \in safe
      /\ \A m \in run.n + 1 .. Marker : content[<<Identity, m>>] = None
      /\ content[<<Identity, run.n>>] = populations
  BY <1>1, <1>2, NumberFacts DEF Populating, Present
<1>6. populations # None /\ populations > 0
  BY <1>1, NoneAssumption, BoundAssumption DEF TypeOK, Calling
<1>7. CommittedComplete'
  BY <1>1 DEF CommittedComplete, Present
<1>8. Calling'
  <2>1. (safe \subseteq Store!Stored)'
    BY <1>1, <1>2, <1>5, <1>6 DEF Calling, Store!Stored, TypeOK
  <2> QED BY <1>1, <1>3, <1>6, <2>1 DEF Calling, Starting
<1>9. Serial'
  BY <1>2, <1>3, <1>4 DEF Serial, Retrying, Prefilling
<1>10. OwnUncommitted'
  BY <1>1, <1>2, <1>3, <1>4 DEF OwnUncommitted, Present
<1>11. Populating'
  <2>1. \A m \in 0 .. run.n : content'[<<Identity, m>>] = populations /\ <<Identity, m>> \in safe'
    BY <1>1, <1>2, <1>5
  <2>2. \A m \in run.n + 1 .. Marker : content'[<<Identity, m>>] = None
    BY <1>1, <1>5
  <2>3. <<Identity, run.n + 1>> \notin safe'
    BY <1>1, <1>2, <1>5, NumberFacts DEF Calling, Store!Stored
  <2> QED BY <1>1, <1>2, <1>3, <1>4, <2>1, <2>2, <2>3, NumberFacts DEF Populating, Present
<1>12. Reusing'
  BY <1>1, <1>2, <1>3, <1>4 DEF Reusing, Prefilling, State
<1> QED BY <1>7, <1>8, <1>9, <1>10, <1>11, <1>12

\* A durable marker ends the request's claim on the pages.
LEMMA CommitStep == ASSUME IInv, Commit PROVE CommittedComplete' /\ Consistent'
<1> USE DEF IInv, Consistent
<1> DEFINE q == Committed(State)
<1>1. /\ run.at = "spill" /\ run.n = Marker /\ content' = content
      /\ safe' = safe \cup {<<Identity, Marker>>}
      /\ requests' = [requests EXCEPT ![run.req] = q]
      /\ run' = NoRun /\ UNCHANGED populations
  BY DEF Commit, Store!Acknowledge
<1>2. /\ run.req \in Live /\ Identity \in Identities /\ State \in RequestType /\ ~State.reuse
      /\ State.from = {}
  BY <1>1, StateType DEF Serial, Prefilling, Reusing, State
<1>3. q \in RequestType /\ q.created = {} /\ q.reuse = State.reuse /\ q.from = State.from
  BY <1>2 DEF RequestType, Committed
<1> HIDE DEF q
<1>4. Live = {run.req} /\ Live' = {run.req} /\ requests'[run.req] = q
  BY <1>1, <1>2, <1>3, Updated
<1>5. run'.at = "none"
  BY <1>1 DEF NoRun, Call
<1>6. content[<<Identity, Marker>>] # None
  BY <1>1, NoneAssumption, BoundAssumption, NumberFacts DEF Populating, TypeOK
<1>7. CommittedComplete'
  BY <1>1 DEF CommittedComplete, Present
<1>8. (safe \subseteq Store!Stored)'
  BY <1>1, <1>2, <1>6, NumberFacts DEF Calling, Store!Stored
<1>9. Calling' /\ Serial' /\ Populating'
  BY <1>1, <1>4, <1>5, <1>8 DEF Calling, Starting, Serial, Retrying, Prefilling, Populating
<1>10. OwnUncommitted' /\ Reusing'
  BY <1>2, <1>3, <1>4, <1>5 DEF OwnUncommitted, Reusing, Prefilling
<1> QED BY <1>7, <1>9, <1>10

\* A layer read while reusing is of the committed population.
LEMMA ReuseLayerStep == ASSUME IInv, ReuseLayer PROVE CommittedComplete' /\ Consistent'
<1> USE DEF IInv, Consistent
<1>1. /\ run.at = "reuse" /\ run.n < Layers /\ UNCHANGED <<content, safe, populations>>
      /\ run' = [run EXCEPT !.n = @ + 1]
  BY DEF ReuseLayer, store
<1>2. PICK read \in {{KvPage(run.n)}, {KvPage(run.n), StatePage(run.n)}} :
          /\ read \subseteq Present(Identity)
          /\ requests' = [requests EXCEPT ![run.req].from =
                             @ \cup {content[<<Identity, n>>] : n \in read}]
  BY DEF ReuseLayer
<1>3. /\ run.req \in Live /\ State.reuse /\ ~State.sampled
  BY <1>1 DEF Serial, Prefilling, Reusing
<1>4. Identity \in Identities /\ State \in RequestType
  BY <1>3, StateType
<1>5. /\ Present(Identity) = Numbers /\ State.created = {}
      /\ State.from \subseteq {content[<<Identity, Marker>>]}
  BY <1>3 DEF Reusing, State, Identity
<1> DEFINE used == {content[<<Identity, n>>] : n \in read}
           q == [State EXCEPT !.from = @ \cup used]
\* Every page read is of the population that committed.
<1>6. used = {content[<<Identity, Marker>>]}
  <2>1. \A n \in Numbers : content[<<Identity, n>>] = content[<<Identity, Marker>>]
    BY <1>4, <1>5, NumberFacts DEF CommittedComplete
  <2>2. read \subseteq Numbers /\ \E n \in read : TRUE
    BY <1>2 DEF Present
  <2> QED BY <2>1, <2>2
<1>7. content[<<Identity, Marker>>] \in 1 .. MaxPopulations
  BY <1>4, <1>5, NumberFacts DEF Present, TypeOK
<1> HIDE DEF used
<1>8. /\ q \in RequestType /\ q.from = {content[<<Identity, Marker>>]} /\ q.reuse /\ q.created = {}
      /\ q.identity = Identity /\ ~q.sampled
  BY <1>3, <1>4, <1>5, <1>6, <1>7 DEF RequestType, Identity
<1>9. requests' = [requests EXCEPT ![run.req] = q]
  BY <1>2 DEF State, used
<1> HIDE DEF q
<1>10. Live = {run.req} /\ Live' = {run.req} /\ requests'[run.req] = q
  BY <1>3, <1>8, <1>9, Updated
<1>11. run'.at = "reuse" /\ run'.req = run.req
  BY <1>1 DEF TypeOK, RunType
<1>12. State' = q /\ Identity' = Identity
  BY <1>8, <1>10, <1>11 DEF State, Identity
<1>13. CommittedComplete' /\ (safe \subseteq Store!Stored)'
  BY <1>1 DEF CommittedComplete, Present, Calling, Store!Stored
<1>14. Calling' /\ Serial' /\ Populating'
  BY <1>3, <1>8, <1>10, <1>11, <1>12, <1>13
     DEF Calling, Starting, Serial, Retrying, Prefilling, Populating
<1>15. OwnUncommitted'
  BY <1>8, <1>10, <1>11 DEF OwnUncommitted
<1>16. Reusing'
  BY <1>1, <1>5, <1>8, <1>10, <1>11, <1>12 DEF Reusing, Prefilling, Present
<1> QED BY <1>13, <1>14, <1>15, <1>16

\* A prefill that returns keeps it.
LEMMA PrefillDoneStep == ASSUME IInv, PrefillDone PROVE CommittedComplete' /\ Consistent'
<1> USE DEF IInv, Consistent
<1> DEFINE q == [State EXCEPT !.sampled = TRUE]
<1>1. /\ run.at = "dense" \/ (run.at = "reuse" /\ run.n = Layers)
      /\ UNCHANGED <<content, safe, populations>>
      /\ requests' = [requests EXCEPT ![run.req] = q] /\ run' = NoRun
  BY DEF PrefillDone, store, State
<1>2. run.req \in Live
  BY <1>1 DEF Serial, Prefilling
<1>3. Identity \in Identities /\ State \in RequestType
  BY <1>2, StateType
<1>4. /\ q \in RequestType /\ q.created = State.created /\ q.reuse = State.reuse
      /\ q.from = State.from /\ q.identity = Identity
  BY <1>3 DEF RequestType, Identity
<1>5. q.reuse => q.from # {}
  BY <1>1, <1>4, LayersAssumption DEF Reusing, Prefilling
<1> HIDE DEF q
<1>6. Live = {run.req} /\ Live' = {run.req} /\ requests'[run.req] = q
  BY <1>1, <1>2, <1>4, Updated
<1>7. run'.at = "none"
  BY <1>1 DEF NoRun, Call
<1>8. CommittedComplete' /\ (safe \subseteq Store!Stored)'
  BY <1>1 DEF CommittedComplete, Present, Calling, Store!Stored
<1>9. Calling' /\ Serial' /\ Populating'
  BY <1>1, <1>6, <1>7, <1>8 DEF Calling, Starting, Serial, Retrying, Prefilling, Populating
<1>10. OwnUncommitted'
  BY <1>1, <1>2, <1>4, <1>6, <1>7 DEF OwnUncommitted, Present, State, Identity
<1>11. Reusing'
  BY <1>1, <1>2, <1>4, <1>5, <1>6, <1>7 DEF Reusing, Present, Prefilling, State, Identity
<1> QED BY <1>8, <1>9, <1>10, <1>11

\* So does one that failed and is about to be repeated in full.
LEMMA FallbackStep == ASSUME IInv, Fallback PROVE CommittedComplete' /\ Consistent'
<1> USE DEF IInv, Consistent
<1> DEFINE q == Retried(State)
<1>1. /\ Prefilling /\ UNCHANGED <<content, safe, populations>>
      /\ run' = Discard(run.req, None, "retry") /\ requests' = [requests EXCEPT ![run.req] = q]
  BY DEF Fallback, store
<1>2. run.req \in Live /\ ~State.sampled
  BY <1>1 DEF Serial
<1>3. Identity \in Identities /\ State \in RequestType /\ requests[run.req] # None
  BY <1>2, StateType DEF State
<1>4. /\ q \in RequestType /\ q.created = State.created /\ ~q.reuse
      /\ q.from = {} /\ q.identity = Identity /\ q.sampled = State.sampled
  BY <1>3 DEF RequestType, Identity, Retried
<1> HIDE DEF q
<1>5. Live = {run.req} /\ Live' = {run.req} /\ requests'[run.req] = q
  BY <1>1, <1>2, <1>4, Updated
<1>6. /\ run'.at = "discard" /\ run'.then = "retry" /\ run'.req = run.req /\ run'.owner = Identity
      /\ run'.left = State.created /\ run'.deferred = {}
  BY <1>1, <1>3 DEF Discard, State, Identity
<1>7. State' = q /\ Identity' = Identity
  BY <1>4, <1>5, <1>6 DEF State, Identity
<1>8. CommittedComplete' /\ (safe \subseteq Store!Stored)'
  BY <1>1 DEF CommittedComplete, Present, Calling, Store!Stored
<1>9. Calling'
  BY <1>3, <1>6, <1>8 DEF Calling, Starting
<1>10. Serial'
  BY <1>2, <1>4, <1>5, <1>6, <1>7 DEF Serial, Retrying, Prefilling
<1>11. OwnUncommitted'
  <2>1. State.created # {} => /\ <<Identity, Marker>> \notin safe
                              /\ Marker \in Present(Identity) => Marker \in State.created
    BY <1>2 DEF OwnUncommitted, State, Identity
  <2> QED BY <1>1, <1>4, <1>5, <1>6, <2>1 DEF OwnUncommitted, Present
<1>12. Populating' /\ Reusing'
  BY <1>4, <1>5, <1>6 DEF Populating, Reusing, Prefilling
<1> QED BY <1>8, <1>9, <1>10, <1>11, <1>12

\* A restart keeps whatever is durable, so all pages of a committed snapshot.
LEMMA RestartStep == ASSUME IInv, Restart PROVE CommittedComplete' /\ Consistent'
<1> USE DEF IInv, Consistent
<1>1. PICK lost \in SUBSET (Store!Stored \ safe) : Store!Restart(Store!Stored \ lost)
  BY DEF Restart
<1>2. /\ safe' = safe /\ safe \subseteq Store!Stored \ lost
      /\ content' = [k \in Identities \X Numbers |->
                        IF k \in Store!Stored \ lost THEN content[k] ELSE None]
      /\ Live' = {} /\ run'.at = "none" /\ run' = NoRun
  BY <1>1 DEF Restart, Store!Restart, Live, NoRun, Call
<1>3. CommittedComplete'
  <2> SUFFICES ASSUME NEW i \in Identities, content'[<<i, Marker>>] # None, NEW m \in 0 .. Marker - 1
               PROVE  content'[<<i, m>>] = content'[<<i, Marker>>] /\ <<i, m>> \in safe'
    BY DEF CommittedComplete, Present
  <2>1. content'[<<i, Marker>>] = content[<<i, Marker>>] /\ m \in Numbers
    BY <1>2, NumberFacts
  <2>2. content[<<i, m>>] = content[<<i, Marker>>] /\ <<i, m>> \in safe
    BY <2>1, NumberFacts DEF CommittedComplete, Present
  <2> QED BY <1>2, <2>1, <2>2
<1>4. (safe \subseteq Store!Stored)'
  BY <1>2 DEF Store!Stored
<1> QED BY <1>2, <1>3, <1>4 DEF Calling, Starting, Serial, Retrying, Prefilling, OwnUncommitted,
                                Populating, Reusing

-----------------------------------------------------------------------------
(* The theorems *)

\* The runtime starts with an empty store and no request.
LEMMA InitInv == Init => IInv
<1> SUFFICES ASSUME Init PROVE IInv
  OBVIOUS
<1>1. TypeOK
  BY TypeInit
<1>2. content = [k \in Identities \X Numbers |-> None] /\ safe = {} /\ Live = {} /\ run.at = "none"
  BY DEF Init, Store!Init, Live, NoRun, Call
<1>3. run = NoRun
  BY DEF Init
<1>4. CommittedComplete
  BY <1>2, NumberFacts DEF CommittedComplete, Present
<1>5. Consistent
  BY <1>2, <1>3 DEF Consistent, Calling, Starting, Serial, Retrying, Prefilling, OwnUncommitted,
                    Populating, Reusing
<1> QED BY <1>1, <1>4, <1>5 DEF IInv

\* Every step of a runtime that keeps one request preserves the invariant.
LEMMA StepInv == ASSUME MaxLive = 1, IInv, [Next]_vars PROVE IInv'
<1>1. TypeOK'
  BY TypeStep DEF IInv, Consistent
<1>2. CASE \E r \in Requests : Release(r) \/ \E p \in Plans : Run(r, p)
  BY <1>1, <1>2, ReleaseStep, RunStep DEF IInv
<1>3. CASE Step
  <2>1. CASE PreflightRaises \/ Raise
    BY <1>1, <2>1, OverStep DEF IInv, PreflightRaises, Raise, store
  <2> QED BY <1>1, <1>3, <2>1, DiscardPageStep, DiscardDoneStep, PreflightStep, RecoverPageStep,
             RecoverDoneStep, PutPageStep, SpillPageStep, CommitStep, ReuseLayerStep,
             PrefillDoneStep, FallbackStep DEF IInv, Step
<1>4. CASE Restart
  BY <1>1, <1>4, RestartStep DEF IInv
<1>5. CASE UNCHANGED vars
  <2>1. CommittedComplete' /\ Calling' /\ Serial'
    BY <1>5 DEF vars, IInv, Consistent, CommittedComplete, Present, Calling, Store!Stored,
                Starting, Serial, Retrying, Prefilling, Live, State, Identity
  <2>2. OwnUncommitted' /\ Populating' /\ Reusing'
    BY <1>5 DEF vars, IInv, Consistent, Present, OwnUncommitted, Populating, Reusing,
                Prefilling, Live, State, Identity
  <2> QED BY <1>1, <2>1, <2>2 DEF IInv, Consistent
<1> QED BY <1>2, <1>3, <1>4, <1>5 DEF Next

\* The invariant holds of every run of a runtime that keeps one request.
THEOREM Invariance == ASSUME MaxLive = 1 PROVE Spec => []IInv
<1>1. Init => IInv
  BY InitInv
<1>2. IInv /\ [Next]_vars => IInv'
  BY StepInv
<1> QED BY <1>1, <1>2, PTL DEF Spec

\* Every variable stays in its type.
THEOREM PopulationTypeOK == ASSUME MaxLive = 1 PROVE Spec => []TypeOK
<1>1. IInv => TypeOK
  BY DEF IInv
<1> QED BY <1>1, Invariance, PTL

\* A commit marker is there only with every page of its own population, durable:
\* failures, retries, clean-ups and crashes never make a partial snapshot look
\* complete.
THEOREM PopulationComplete == ASSUME MaxLive = 1 PROVE Spec => []CommittedComplete
<1>1. IInv => CommittedComplete
  BY DEF IInv
<1> QED BY <1>1, Invariance, PTL

\* What a call in progress knows of the store.
THEOREM PopulationConsistent == ASSUME MaxLive = 1 PROVE Spec => []Consistent
<1>1. IInv => Consistent
  BY DEF IInv
<1> QED BY <1>1, Invariance, PTL

\* _put of a population never collides with a page of an earlier one.
THEOREM PopulationNoCollision == ASSUME MaxLive = 1 PROVE Spec => []NoCollision
<1>1. IInv => NoCollision
  BY DEF IInv, Consistent, Populating, NoCollision
<1> QED BY <1>1, Invariance, PTL

\* A sampled token comes from one committed population, or from a full prefill.
THEOREM PopulationSampledFromOne == ASSUME MaxLive = 1 PROVE Spec => []SampledFromOne
<1>1. IInv => SampledFromOne
  <2> SUFFICES ASSUME IInv, NEW r \in Live, requests[r].sampled
               PROVE  requests[r].from = IF requests[r].reuse
                                         THEN {content[<<requests[r].identity, Marker>>]} ELSE {}
    BY DEF SampledFromOne
  <2>1. IF requests[r].reuse
        THEN requests[r].from \subseteq {content[<<requests[r].identity, Marker>>]}
        ELSE requests[r].from = {}
    BY DEF IInv, Consistent, Reusing
  <2>2. requests[r].reuse => requests[r].from # {}
    BY DEF IInv, Consistent, Reusing
  <2> QED BY <2>1, <2>2
<1> QED BY <1>1, Invariance, PTL

\* No step of the runtime changes or removes a page of a committed snapshot.
THEOREM PopulationImmutable == ASSUME MaxLive = 1 PROVE Spec => CommittedForEver
<1> DEFINE A == \A i \in Identities : <<i, Marker>> \in safe =>
                   \A n \in Numbers : content'[<<i, n>>] = content[<<i, n>>]
<1>1. IInv /\ [Next]_vars => [A]_vars
  <2> SUFFICES ASSUME IInv, Next, NEW i \in Identities, <<i, Marker>> \in safe, NEW n \in Numbers
               PROVE  content'[<<i, n>>] = content[<<i, n>>]
    OBVIOUS
  <2>1. Marker \in Present(i)
    BY NumberFacts DEF IInv, Consistent, Calling, Store!Stored, Present
  <2>2. CASE DiscardPage
    <3>1. PICK m \in Latest(run.left) :
              Store!Delete(<<run.owner, m>>) \/ UNCHANGED store
      BY <2>2 DEF DiscardPage
    <3>2. run.left # {} /\ run.at = "discard"
      BY <2>2, <3>1 DEF DiscardPage, Latest
    <3>3. run.owner # i
      BY <3>2 DEF IInv, Consistent, OwnUncommitted
    <3> QED BY <3>1, <3>3 DEF Store!Delete, store, IInv, TypeOK
  <2>3. CASE RecoverPage
    <3>1. Identity # i /\ (Store!Delete(<<Identity, run.n>>) \/ UNCHANGED store)
      BY <2>1, <2>3 DEF RecoverPage
    <3> QED BY <3>1 DEF Store!Delete, store, IInv, TypeOK
  <2>4. CASE PutPage
    <3>1. content[<<Identity, run.n>>] = None
          /\ content' = [content EXCEPT ![<<Identity, run.n>>] = populations]
      BY <2>4 DEF PutPage, Store!Put
    <3>2. run.at = "put" /\ run.n \in Numbers /\ run.n \in Nat
      BY <2>4, NumberFacts DEF PutPage, IInv, TypeOK, RunType
    <3>3. \A m \in run.n + 1 .. Marker : content[<<Identity, m>>] = None
      BY <3>2, NumberFacts DEF IInv, Consistent, Populating, Present
    <3>4. Identity # i
      BY <2>1, <3>1, <3>2, <3>3, NumberFacts DEF Present
    <3> QED BY <3>1, <3>4 DEF IInv, TypeOK
  <2>5. CASE Restart
    <3>1. PICK lost \in SUBSET (Store!Stored \ safe) : Store!Restart(Store!Stored \ lost)
      BY <2>5 DEF Restart
    <3>2. <<i, n>> \in safe
      BY <2>1, NumberFacts DEF IInv, CommittedComplete
    <3> QED BY <3>1, <3>2 DEF Store!Restart
  <2>6. ASSUME NEW r \in Requests, NEW p \in Plans, Release(r) \/ Run(r, p)
        PROVE  content' = content
    BY <2>6 DEF Release, Run, Pop, store
  <2>7. CASE \/ DiscardDone \/ Preflight \/ PreflightRaises \/ RecoverDone \/ SpillPage \/ Commit
             \/ ReuseLayer \/ PrefillDone \/ Fallback \/ Raise
    BY <2>7 DEF DiscardDone, Preflight, PreflightRaises, RecoverDone, SpillPage, Commit,
                ReuseLayer, PrefillDone, Fallback, Raise, store, Store!Acknowledge
  <2>8. CASE \E r \in Requests : Release(r)
    BY <2>8 DEF Release, Pop, store
  <2> QED BY <2>2, <2>3, <2>4, <2>5, <2>6, <2>7, <2>8 DEF Next, Step
<1> QED BY <1>1, Invariance, PTL DEF Spec, CommittedForEver
=============================================================================
