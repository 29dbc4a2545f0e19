--------------------------- MODULE ProcessLinkProofs ---------------------------
(***************************************************************************)
(* The safety of ProcessLink for every queue size, any number of frames,   *)
(* and however often either process is killed and started again; and, when *)
(* the consumer opens the link first, the order of its frames and that it  *)
(* is a bounded queue.                                                     *)
(***************************************************************************)
EXTENDS ProcessLink, FiniteSetTheorems, SequenceTheorems, TLAPS

Attached(p) == pc[p] \in {"loop", "busy"}

\* p has come to its loop, perhaps to its end.
Came(p) == pc[p] \in {"loop", "busy", "gone"}

\* p's objects own NAME.init, or the other names.
OwnsInit(p) == pc[p] \in {"create", "waitFull"}
OwnsRest(p) == p \in owner /\ pc[p] \in {"waitFull", "loop", "busy"}

Types ==
    /\ names \subseteq Names
    /\ initSem \in 0..1
    /\ emptyLeft \in Nat /\ fullLeft \in Nat
    /\ buffers \in [Slots -> Torn..NumFrames]
    /\ compatible \in BOOLEAN
    /\ pc \in [Ends -> {"start", "create", "waitFull", "openInit", "waitInit",
                        "attach", "failed", "loop", "busy", "gone", "killed"}]
    /\ owner \subseteq Ends
    /\ currentBufferId \in [Ends -> Slots]
    /\ pushed \in 0..NumFrames /\ fetched \in 0..NumFrames
    /\ seen \in Torn..NumFrames
    /\ kills \in 0..MaxKills
    /\ casualties \subseteq {"owner", "handshake", "attacher", "peer"}

\* The producer works on one of its frames.
InRound == pc["producer"] = "busy" => pushed < NumFrames

\* Ownership goes with the places in the code, and nobody owns a name that
\* another end owns.
Ownership ==
    /\ \A p \in Ends : OwnsInit(p) => p \in owner /\ "init" \in names
    /\ \A p \in owner : OwnsInit(p) \/ Attached(p)
    /\ \A p \in Ends : OwnsRest(p) => Resources \subseteq names
    /\ ~(OwnsInit("producer") /\ OwnsInit("consumer"))
    /\ ~(OwnsRest("producer") /\ OwnsRest("consumer"))
    /\ \A p \in Ends : pc[p] = "create" => initSem = 0 /\ ~Unanswered

\* Names that nobody will remove: an end that is to create names finds them.
InitLeft == "init" \in names /\ \A p \in Ends : ~OwnsInit(p)
RestLeft == names \cap Resources # {} /\ \A p \in Ends : ~OwnsRest(p)

\* The names are those that are owned.
NamesOwned ==
    names = (IF \E p \in Ends : OwnsInit(p) THEN {"init"} ELSE {})
              \cup (IF \E p \in Ends : OwnsRest(p) THEN Resources ELSE {})

\* What those who were killed have left behind.
Remains ==
    /\ "owner" \in casualties => InitLeft \/ RestLeft
    /\ "owner" \notin casualties => NamesOwned
    /\ "handshake" \in casualties =>
         "owner" \in casualties /\ InitLeft /\ RestLeft /\ Resources \subseteq names
    /\ casualties = {"peer"} => \E p \in Ends : pc[p] = "gone" \/ OwnsRest(p)

\* NAME.init is 1 from its owner's post until the other end takes it, one end
\* attaches at a time, and until the owner is told nothing has happened in the
\* ring.
Announced ==
    /\ initSem = 1 => \A p \in Ends : pc[p] # "attach"
    /\ ~(pc["producer"] = "attach" /\ pc["consumer"] = "attach")
    /\ initSem = 1 \/ (\E p \in Ends : pc[p] = "attach") => "attacher" \notin casualties
    /\ Unanswered =>
         /\ \A p \in Ends : ~Attached(p)
         /\ emptyLeft = QueueSize /\ fullLeft = 0
         /\ \A i \in Slots : buffers[i] = 0
         /\ (\E p \in Ends : pc[p] = "waitFull") \/ "handshake" \in casualties

\* Who may be where when one end waits for the handshake or works.
Peers ==
    /\ ~compatible => fullLeft = 0 /\ \A p \in Ends : ~Attached(p)
    /\ \A p \in Ends : Attached(p) /\ p \notin owner =>
         pc[Other(p)] = "gone" \/ "owner" \in casualties \/ OwnsRest(Other(p))
    /\ \A p \in Ends : pc[p] = "waitFull" =>
         /\ ~Unanswered /\ compatible /\ casualties = {} => Came(Other(p))
         /\ casualties # {} =>
              \/ pc[Other(p)] = "gone"
              \/ ~Attached(Other(p)) /\ (~Unanswered \/ "attacher" \in casualties)

Sum == emptyLeft + fullLeft + Busy("producer") + Busy("consumer")

\* The buffers of the two counts and in the two ends' hands.
Accounts ==
    /\ Sum <= QueueSize + (IF Unanswered THEN 0 ELSE 1)
    /\ (\A p \in Ends : Came(p)) =>
         Sum = QueueSize + (IF HandshakePending THEN 1 ELSE 0)
    /\ \A p \in Ends : pc[p] = "waitFull" /\ ~Unanswered /\ Came(Other(p)) =>
         Sum = QueueSize + 1

\* What is shown to be inductive.
IInv ==
    /\ Types
    /\ InRound
    /\ Ownership
    /\ Remains
    /\ Announced
    /\ Peers
    /\ OnlyWithPeer
    /\ Accounts

----------------------------------------------------------------------------

\* The names an owner creates: NAME.init is none of them.
LEMMA ResourceNames ==
    /\ Resources \subseteq Names /\ Resources # {} /\ "init" \notin Resources
    /\ Names = Resources \cup {"init"}
    /\ \A n \in 0..4 : Created(n) \subseteq Resources /\ (n = 0 => Created(n) = {})
<1>1. Resources = {"empty", "full", "ctrl", "buf"}
  BY DEF Resources, Created, CreationOrder
<1>2. \A n \in 0..4 : Created(n) \subseteq Resources /\ (n = 0 => Created(n) = {})
  BY DEF Resources, Created, CreationOrder
<1> QED
  BY <1>1, <1>2 DEF Names

\* Nothing exists at the beginning.
LEMMA InitIInv == Init => IInv
BY ProcessLinkAssumption, ResourceNames
DEF Init, IInv, Types, InRound, Ownership, Remains, Announced, Unanswered, Peers,
    OnlyWithPeer, Accounts, NamesOwned, InitLeft, RestLeft, Sum, Busy, HandshakePending, Attached, Came,
    OwnsInit, OwnsRest, Ends, Slots, Torn

\* The kinds of steps.
LEMMA Steps ==
    ASSUME Next
    PROVE  \/ \E p \in Ends : Open(p) \/ Destroy(p) \/ Kill(p) \/ Restart(p)
           \/ BeginPush \/ EndPush \/ BeginFetch \/ EndFetch
BY DEF Next, Produce, Consume, Ends

\* The next position in the ring.
LEMMA NextSlot == \A i \in Slots : (i + 1) % QueueSize \in Slots
BY ProcessLinkAssumption DEF Slots

\* Every step keeps the types.
LEMMA TypesStep == IInv /\ [Next]_vars => Types'
<1> SUFFICES ASSUME IInv, [Next]_vars PROVE Types'
  OBVIOUS
<1> USE ProcessLinkAssumption, ResourceNames
    DEF IInv, Types, InRound, Ends, Slots, Torn, Goto, Wait, Post, Unlink, shared,
      counters, fate
<1>1. ASSUME NEW p \in Ends, Open(p)
      PROVE  Types'
  <2>1. CASE CreateInit(p)
    BY <2>1 DEF CreateInit
  <2>2. CASE FindInit(p)
    BY <2>2 DEF FindInit
  <2>3. CASE OpenInit(p)
    BY <2>3 DEF OpenInit
  <2>4. CASE CreateResources(p)
    BY <2>4 DEF CreateResources, Ownership
  <2>5. CASE CreateConflict(p)
    BY <2>5 DEF CreateConflict
  <2>6. CASE OwnerAttached(p)
    BY <2>6 DEF OwnerAttached
  <2>7. CASE AwaitInit(p)
    BY <2>7 DEF AwaitInit
  <2>8. CASE Attach(p)
    BY <2>8 DEF Attach
  <2>9. CASE AttachMismatch(p)
    BY <2>9 DEF AttachMismatch
  <2> QED
    BY <1>1, <2>1, <2>2, <2>3, <2>4, <2>5, <2>6, <2>7, <2>8, <2>9 DEF Open
<1>2. ASSUME NEW p \in Ends, Destroy(p)
      PROVE  Types'
  BY <1>2 DEF Destroy
<1>3. ASSUME NEW p \in Ends, Kill(p)
      PROVE  Types'
  <2>1. kills' \in 0..MaxKills /\ owner' \subseteq Ends
        /\ casualties' \subseteq {"owner", "handshake", "attacher", "peer"}
    BY ONLY <1>3, ProcessLinkAssumption, Types DEF Kill, Types, Ends
  <2>2. names' \subseteq Names
    BY <1>3 DEF Kill
  <2>3. pc' = [pc EXCEPT ![p] = "killed"]
        /\ UNCHANGED <<initSem, emptyLeft, fullLeft, buffers, compatible, currentBufferId,
                       pushed, fetched, seen>>
    BY ONLY <1>3 DEF Kill, Goto, counters
  <2>4. Types
    OBVIOUS
  <2> HIDE DEF Slots
  <2> QED
    BY ONLY <2>1, <2>2, <2>3, <2>4 DEF Types, Torn, Ends
<1>4. ASSUME NEW p \in Ends, Restart(p)
      PROVE  Types'
  <2>1. /\ pc' = [pc EXCEPT ![p] = "start"]
        /\ currentBufferId' = [currentBufferId EXCEPT ![p] = 0]
        /\ pushed' \in {0, pushed} /\ fetched' \in {0, fetched} /\ seen' \in {0, seen}
        /\ UNCHANGED <<shared, compatible, owner, fate>>
    BY ONLY <1>4 DEF Restart, Goto
  <2>2. /\ names' = names /\ initSem' = initSem /\ emptyLeft' = emptyLeft
        /\ fullLeft' = fullLeft /\ buffers' = buffers /\ compatible' = compatible
        /\ owner' = owner /\ kills' = kills /\ casualties' = casualties
    BY ONLY <2>1 DEF shared, fate
  <2>3. Types
    OBVIOUS
  <2>4. 0 \in Slots /\ NumFrames \in Nat
    OBVIOUS
  <2> HIDE DEF Slots
  <2> QED
    BY ONLY <2>1, <2>2, <2>3, <2>4 DEF Types, Torn, Ends
<1>5. CASE BeginPush
  BY <1>5 DEF BeginPush
<1>6. CASE EndPush
  <2>1. (currentBufferId["producer"] + 1) % QueueSize \in Slots
    BY NextSlot
  <2>2. currentBufferId' \in [Ends -> Slots]
    BY <1>6, <2>1 DEF EndPush, Advance
  <2>3. buffers' \in [Slots -> Torn..NumFrames] /\ pushed' \in 0..NumFrames
    BY <1>6 DEF EndPush
  <2>4. /\ pc' = [pc EXCEPT !["producer"] = "loop"] /\ fullLeft' = fullLeft + 1
        /\ UNCHANGED <<names, initSem, emptyLeft, compatible, owner, fetched, seen, fate>>
    BY <1>6 DEF EndPush
  <2>5. Types
    OBVIOUS
  <2> HIDE DEF Slots
  <2> QED
    BY ONLY <2>2, <2>3, <2>4, <2>5 DEF Types, fate, Ends
<1>7. CASE BeginFetch
  BY <1>7 DEF BeginFetch
<1>8. CASE EndFetch
  <2>1. (currentBufferId["consumer"] + 1) % QueueSize \in Slots
    BY NextSlot
  <2>2. currentBufferId' \in [Ends -> Slots]
    BY <1>8, <2>1 DEF EndFetch, Advance
  <2>3. seen' \in Torn..NumFrames
    BY <1>8 DEF EndFetch
  <2>4. /\ pc' = [pc EXCEPT !["consumer"] = "loop"] /\ emptyLeft' = emptyLeft + 1
        /\ UNCHANGED <<names, initSem, fullLeft, buffers, compatible, owner, pushed, fetched, fate>>
    BY <1>8 DEF EndFetch
  <2> QED
    BY <2>2, <2>3, <2>4, SMTT(40)
<1>9. CASE UNCHANGED vars
  BY <1>9 DEF vars
<1> QED
  BY <1>1, <1>2, <1>3, <1>4, <1>5, <1>6, <1>7, <1>8, <1>9, Steps

\* Names and their owners keep together.
LEMMA OwnershipStep == IInv /\ [Next]_vars => Ownership'
<1> SUFFICES ASSUME IInv, [Next]_vars PROVE Ownership'
  OBVIOUS
<1> USE ResourceNames
    DEF IInv, Types, Ends, Goto, Wait, Unlink, shared, fate, Ownership, OwnsInit,
        OwnsRest, Attached, Unanswered
<1>1. ASSUME NEW p \in Ends, Open(p)
      PROVE  Ownership'
  <2>1. CASE CreateInit(p)
    BY <2>1 DEF CreateInit, Announced, Remains, InitLeft
  <2>2. CASE FindInit(p)
    BY <2>2 DEF FindInit
  <2>3. CASE OpenInit(p)
    BY <2>3 DEF OpenInit
  <2>4. CASE CreateResources(p)
    BY <2>4 DEF CreateResources
  <2>5. CASE CreateConflict(p)
    BY <2>5 DEF CreateConflict
  <2>6. CASE OwnerAttached(p)
    BY <2>6 DEF OwnerAttached
  <2>7. CASE AwaitInit(p)
    BY <2>7 DEF AwaitInit
  <2>8. CASE Attach(p)
    BY <2>8 DEF Attach
  <2>9. CASE AttachMismatch(p)
    BY <2>9 DEF AttachMismatch
  <2> QED
    BY <1>1, <2>1, <2>2, <2>3, <2>4, <2>5, <2>6, <2>7, <2>8, <2>9 DEF Open
<1>2. ASSUME NEW p \in Ends, Destroy(p)
      PROVE  Ownership'
  BY <1>2 DEF Destroy
<1>3. ASSUME NEW p \in Ends, Kill(p)
      PROVE  Ownership'
  BY <1>3 DEF Kill
<1>4. ASSUME NEW p \in Ends, Restart(p)
      PROVE  Ownership'
  BY <1>4 DEF Restart
<1>5. CASE BeginPush
  BY <1>5 DEF BeginPush
<1>6. CASE EndPush
  BY <1>6 DEF EndPush
<1>7. CASE BeginFetch
  BY <1>7 DEF BeginFetch
<1>8. CASE EndFetch
  BY <1>8 DEF EndFetch
<1>9. CASE UNCHANGED vars
  BY <1>9 DEF vars
<1> QED
  BY <1>1, <1>2, <1>3, <1>4, <1>5, <1>6, <1>7, <1>8, <1>9, Steps

\* What a kill leaves behind stays, and nothing else does.
LEMMA RemainsStep == IInv /\ [Next]_vars => Remains'
<1> SUFFICES ASSUME IInv, [Next]_vars PROVE Remains'
  OBVIOUS
<1> USE ResourceNames
    DEF IInv, Types, Ends, Goto, Unlink, shared, fate, Ownership, OwnsInit, OwnsRest,
        Attached, Remains, InitLeft, RestLeft, NamesOwned
<1>1. ASSUME NEW p \in Ends, Open(p)
      PROVE  Remains'
  <2>1. CASE CreateInit(p)
    BY <2>1 DEF CreateInit
  <2>2. CASE FindInit(p)
    BY <2>2 DEF FindInit
  <2>3. CASE OpenInit(p)
    BY <2>3 DEF OpenInit
  <2>4. CASE CreateResources(p)
    BY <2>4 DEF CreateResources
  <2>5. CASE CreateConflict(p)
    BY <2>5 DEF CreateConflict
  <2>6. CASE OwnerAttached(p)
    BY <2>6 DEF OwnerAttached
  <2>7. CASE AwaitInit(p)
    BY <2>7 DEF AwaitInit
  <2>8. CASE Attach(p)
    BY <2>8 DEF Attach
  <2>9. CASE AttachMismatch(p)
    BY <2>9 DEF AttachMismatch
  <2> QED
    BY <1>1, <2>1, <2>2, <2>3, <2>4, <2>5, <2>6, <2>7, <2>8, <2>9 DEF Open
<1>2. ASSUME NEW p \in Ends, Destroy(p)
      PROVE  Remains'
  BY <1>2 DEF Destroy
<1>3. ASSUME NEW p \in Ends, Kill(p)
      PROVE  Remains'
  <2> PICK n \in 0..4 : /\ pc[p] # "create" => n = 0
                        /\ names' = names \cup Created(n)
    BY <1>3 DEF Kill
  <2>1. CASE pc[p] = "create"
    BY <1>3, <2>1 DEF Kill
  <2>2. CASE pc[p] = "waitFull"
    BY <1>3, <2>2 DEF Kill
  <2>3. CASE Attached(p) /\ p \in owner
    BY <1>3, <2>3 DEF Kill
  <2>4. CASE Attached(p) /\ p \notin owner
    BY <1>3, <2>4 DEF Kill, Peers, Other
  <2>5. CASE pc[p] \in {"openInit", "waitInit"}
    BY <1>3, <2>5 DEF Kill
  <2> QED
    BY <1>3, <2>1, <2>2, <2>3, <2>4, <2>5 DEF Kill
<1>4. ASSUME NEW p \in Ends, Restart(p)
      PROVE  Remains'
  BY <1>4 DEF Restart
<1>5. CASE BeginPush
  BY <1>5 DEF BeginPush
<1>6. CASE EndPush
  BY <1>6 DEF EndPush
<1>7. CASE BeginFetch
  BY <1>7 DEF BeginFetch
<1>8. CASE EndFetch
  BY <1>8 DEF EndFetch
<1>9. CASE UNCHANGED vars
  BY <1>9 DEF vars
<1> QED
  BY <1>1, <1>2, <1>3, <1>4, <1>5, <1>6, <1>7, <1>8, <1>9, Steps

\* Nothing happens in the ring between the announcement and the attachment.
LEMMA AnnouncedStep == IInv /\ [Next]_vars => Announced'
<1> SUFFICES ASSUME IInv, [Next]_vars PROVE Announced'
  OBVIOUS
<1> USE ResourceNames
    DEF IInv, Types, Ends, Goto, Wait, shared, fate, OwnsInit, OwnsRest, Attached, Remains,
        InitLeft, RestLeft, NamesOwned, Announced, Unanswered, Peers, Other
<1>1. ASSUME NEW p \in Ends, Open(p)
      PROVE  Announced'
  <2>1. CASE CreateInit(p)
    BY <2>1 DEF CreateInit
  <2>2. CASE FindInit(p)
    BY <2>2 DEF FindInit
  <2>3. CASE OpenInit(p)
    BY <2>3 DEF OpenInit
  <2>4. CASE CreateResources(p)
    BY <2>4 DEF CreateResources, Ownership
  <2>5. CASE CreateConflict(p)
    BY <2>5 DEF CreateConflict
  <2>6. CASE OwnerAttached(p)
    BY <2>6 DEF OwnerAttached
  <2>7. CASE AwaitInit(p)
    BY <2>7 DEF AwaitInit
  <2>8. CASE Attach(p)
    BY <2>8 DEF Attach
  <2>9. CASE AttachMismatch(p)
    BY <2>9 DEF AttachMismatch
  <2> QED
    BY <1>1, <2>1, <2>2, <2>3, <2>4, <2>5, <2>6, <2>7, <2>8, <2>9 DEF Open
<1>2. ASSUME NEW p \in Ends, Destroy(p)
      PROVE  Announced'
  BY <1>2 DEF Destroy
<1>3. ASSUME NEW p \in Ends, Kill(p)
      PROVE  Announced'
  BY <1>3 DEF Kill
<1>4. ASSUME NEW p \in Ends, Restart(p)
      PROVE  Announced'
  BY <1>4 DEF Restart
<1>5. CASE BeginPush
  BY <1>5 DEF BeginPush
<1>6. CASE EndPush
  BY <1>6 DEF EndPush
<1>7. CASE BeginFetch
  BY <1>7 DEF BeginFetch
<1>8. CASE EndFetch
  BY <1>8 DEF EndFetch
<1>9. CASE UNCHANGED vars
  BY <1>9 DEF vars
<1> QED
  BY <1>1, <1>2, <1>3, <1>4, <1>5, <1>6, <1>7, <1>8, <1>9, Steps

\* Every step keeps who may be where.
LEMMA PeersStep == IInv /\ [Next]_vars => Peers'
<1> SUFFICES ASSUME IInv, [Next]_vars PROVE Peers'
  OBVIOUS
<1> USE ProcessLinkAssumption, ResourceNames
    DEF IInv, Types, Ends, Goto, Wait, Post, shared, fate, Ownership, OwnsInit, OwnsRest,
        Attached, Remains, InitLeft, RestLeft, Announced, Unanswered, Peers, Other, Came
<1>1. ASSUME NEW p \in Ends, Open(p)
      PROVE  Peers'
  <2>1. CASE CreateInit(p)
    BY <2>1 DEF CreateInit
  <2>2. CASE FindInit(p)
    BY <2>2 DEF FindInit
  <2>3. CASE OpenInit(p)
    BY <2>3 DEF OpenInit
  <2>4. CASE CreateResources(p)
    <3>1. initSem' = 1 /\ fullLeft' = 0 /\ OwnsInit(p)
          /\ pc' = [pc EXCEPT ![p] = "waitFull"]
      BY <2>4 DEF CreateResources
    <3>2. "owner" \notin casualties /\ ~OwnsRest(Other(p))
      BY <2>4 DEF CreateResources
    <3>3. ~Attached(Other(p))
      BY <3>2, <2>4 DEF CreateResources
    <3>4. casualties # {} => pc[Other(p)] = "gone"
      <4>1. ASSUME casualties # {} PROVE casualties = {"peer"}
        <5>1. casualties \subseteq {"owner", "handshake", "attacher", "peer"}
          OBVIOUS
        <5>2. "handshake" \in casualties => "owner" \in casualties
          OBVIOUS
        <5>3. "attacher" \notin casualties
          BY <2>4 DEF CreateResources
        <5> QED
          BY ONLY <3>2, <4>1, <5>1, <5>2, <5>3
      <4>2. pc[p] = "create" /\ ~OwnsRest(p)
        BY <2>4 DEF CreateResources
      <4>3. casualties = {"peer"} => \E q \in Ends : pc[q] = "gone" \/ OwnsRest(q)
        OBVIOUS
      <4>4. \A q \in Ends : q = p \/ q = Other(p)
        OBVIOUS
      <4> QED
        BY ONLY <3>2, <4>1, <4>2, <4>3, <4>4
    <3> QED
      BY <2>4, <3>1, <3>2, <3>3, <3>4 DEF CreateResources
  <2>5. CASE CreateConflict(p)
    BY <2>5 DEF CreateConflict
  <2>6. CASE OwnerAttached(p)
    BY <2>6 DEF OwnerAttached
  <2>7. CASE AwaitInit(p)
    BY <2>7 DEF AwaitInit
  <2>8. CASE Attach(p)
    BY <2>8 DEF Attach, Valid
  <2>9. CASE AttachMismatch(p)
    BY <2>9 DEF AttachMismatch, Valid
  <2> QED
    BY <1>1, <2>1, <2>2, <2>3, <2>4, <2>5, <2>6, <2>7, <2>8, <2>9 DEF Open
<1>2. ASSUME NEW p \in Ends, Destroy(p)
      PROVE  Peers'
  BY <1>2 DEF Destroy
<1>3. ASSUME NEW p \in Ends, Kill(p)
      PROVE  Peers'
  BY <1>3 DEF Kill
<1>4. ASSUME NEW p \in Ends, Restart(p)
      PROVE  Peers'
  BY <1>4 DEF Restart
<1>5. CASE BeginPush
  BY <1>5 DEF BeginPush
<1>6. CASE EndPush
  BY <1>6 DEF EndPush
<1>7. CASE BeginFetch
  BY <1>7 DEF BeginFetch
<1>8. CASE EndFetch
  BY <1>8 DEF EndFetch
<1>9. CASE UNCHANGED vars
  BY <1>9 DEF vars
<1> QED
  BY <1>1, <1>2, <1>3, <1>4, <1>5, <1>6, <1>7, <1>8, <1>9, Steps

\* Nobody comes to exchange frames with anyone but its own peer.
LEMMA OnlyStep == IInv /\ [Next]_vars => OnlyWithPeer'
<1> SUFFICES ASSUME IInv, [Next]_vars PROVE OnlyWithPeer'
  OBVIOUS
<1> USE
    DEF IInv, Types, Ends, Goto, Wait, fate, Attached, Remains, Announced, Unanswered, Peers,
        OnlyWithPeer, Other, Came
<1>1. ASSUME NEW p \in Ends, Open(p)
      PROVE  OnlyWithPeer'
  <2>1. CASE CreateInit(p)
    BY <2>1 DEF CreateInit
  <2>2. CASE FindInit(p)
    BY <2>2 DEF FindInit
  <2>3. CASE OpenInit(p)
    BY <2>3 DEF OpenInit
  <2>4. CASE CreateResources(p)
    BY <2>4 DEF CreateResources
  <2>5. CASE CreateConflict(p)
    BY <2>5 DEF CreateConflict
  <2>6. CASE OwnerAttached(p)
    <3>1. compatible /\ ~Unanswered
      BY <2>6 DEF OwnerAttached
    <3>2. CASE casualties = {}
      BY <2>6, <3>1, <3>2 DEF OwnerAttached
    <3>3. CASE casualties # {}
      BY <2>6, <3>1, <3>3 DEF OwnerAttached
    <3> QED
      BY <3>2, <3>3
  <2>7. CASE AwaitInit(p)
    BY <2>7 DEF AwaitInit
  <2>8. CASE Attach(p)
    BY <2>8 DEF Attach, Valid
  <2>9. CASE AttachMismatch(p)
    BY <2>9 DEF AttachMismatch
  <2> QED
    BY <1>1, <2>1, <2>2, <2>3, <2>4, <2>5, <2>6, <2>7, <2>8, <2>9 DEF Open
<1>2. ASSUME NEW p \in Ends, Destroy(p)
      PROVE  OnlyWithPeer'
  BY <1>2 DEF Destroy
<1>3. ASSUME NEW p \in Ends, Kill(p)
      PROVE  OnlyWithPeer'
  BY <1>3 DEF Kill
<1>4. ASSUME NEW p \in Ends, Restart(p)
      PROVE  OnlyWithPeer'
  BY <1>4 DEF Restart
<1>5. CASE BeginPush
  BY <1>5 DEF BeginPush
<1>6. CASE EndPush
  BY <1>6 DEF EndPush
<1>7. CASE BeginFetch
  BY <1>7 DEF BeginFetch
<1>8. CASE EndFetch
  BY <1>8 DEF EndFetch
<1>9. CASE UNCHANGED vars
  BY <1>9 DEF vars
<1> QED
  BY <1>1, <1>2, <1>3, <1>4, <1>5, <1>6, <1>7, <1>8, <1>9, Steps

\* Every step counts each buffer once.
LEMMA AccountsStep == IInv /\ [Next]_vars => Accounts'
<1> SUFFICES ASSUME IInv, [Next]_vars PROVE Accounts'
  OBVIOUS
<1> USE ProcessLinkAssumption, ResourceNames
    DEF IInv, Types, Ends, Goto, Wait, Post, shared, fate, Ownership, OwnsInit, OwnsRest,
        Attached, Remains, InitLeft, RestLeft, Announced, Unanswered, Peers, Other, Came,
        Accounts, Sum, Busy, HandshakePending
<1>1. ASSUME NEW p \in Ends, Open(p)
      PROVE  Accounts'
  <2>1. CASE CreateInit(p)
    BY <2>1 DEF CreateInit
  <2>2. CASE FindInit(p)
    BY <2>2 DEF FindInit
  <2>3. CASE OpenInit(p)
    BY <2>3 DEF OpenInit
  <2>4. CASE CreateResources(p)
    BY <2>4 DEF CreateResources
  <2>5. CASE CreateConflict(p)
    BY <2>5 DEF CreateConflict
  <2>6. CASE OwnerAttached(p)
    BY <2>6 DEF OwnerAttached
  <2>7. CASE AwaitInit(p)
    BY <2>7 DEF AwaitInit
  <2>8. CASE Attach(p)
    BY <2>8 DEF Attach, Valid
  <2>9. CASE AttachMismatch(p)
    BY <2>9 DEF AttachMismatch
  <2> QED
    BY <1>1, <2>1, <2>2, <2>3, <2>4, <2>5, <2>6, <2>7, <2>8, <2>9 DEF Open
<1>2. ASSUME NEW p \in Ends, Destroy(p)
      PROVE  Accounts'
  BY <1>2 DEF Destroy
<1>3. ASSUME NEW p \in Ends, Kill(p)
      PROVE  Accounts'
  BY <1>3 DEF Kill
<1>4. ASSUME NEW p \in Ends, Restart(p)
      PROVE  Accounts'
  BY <1>4 DEF Restart
<1>5. CASE BeginPush
  BY <1>5 DEF BeginPush
<1>6. CASE EndPush
  BY <1>6 DEF EndPush
<1>7. CASE BeginFetch
  BY <1>7 DEF BeginFetch
<1>8. CASE EndFetch
  BY <1>8 DEF EndFetch
<1>9. CASE UNCHANGED vars
  BY <1>9 DEF vars
<1> QED
  BY <1>1, <1>2, <1>3, <1>4, <1>5, <1>6, <1>7, <1>8, <1>9, Steps

\* What is inductive holds throughout.
THEOREM Invariant == Spec => []IInv
<1>1. InRound /\ IInv /\ [Next]_vars => InRound'
  BY ProcessLinkAssumption
  DEF IInv, Types, InRound, Ends, Next, Produce, Consume, Open, CreateInit, FindInit, OpenInit,
      CreateResources, CreateConflict, OwnerAttached, AwaitInit, Attach, AttachMismatch, BeginPush,
      EndPush, BeginFetch, EndFetch, Destroy, Kill, Restart, Goto, vars, counters
<1>2. IInv /\ [Next]_vars => IInv'
  BY <1>1, TypesStep, OwnershipStep, RemainsStep, AnnouncedStep, PeersStep, OnlyStep,
    AccountsStep
  DEF IInv
<1> QED
  BY <1>2, InitIInv, PTL DEF Spec

\* Types, and the bounds of the two counts: a semaphore is never posted more
\* often than there are buffers and one handshake.
THEOREM TypeCorrect == Spec => []TypeOK
<1>1. IInv => TypeOK
  BY ProcessLinkAssumption DEF IInv, Types, TypeOK, Accounts, Sum, Busy
<1> QED
  BY <1>1, Invariant, PTL

\* Whoever opens first, whoever is killed and however often the programs are
\* started again: what the ends leave behind is nothing, or the remains of a
\* killed owner (~ProcessLink, and the conflicts of openResources).
THEOREM NamesAreRemoved == Spec => []NamesRemoved
<1>1. IInv => NamesRemoved
  BY ResourceNames
  DEF IInv, Types, NamesRemoved, Remains, InitLeft, RestLeft, NamesOwned, OwnsInit,
    OwnsRest, Ends
<1> QED
  BY <1>1, Invariant, PTL

\* An end exchanges frames with a matching live peer and with nobody else.
THEOREM OnlyOwnPeer == Spec => []OnlyWithPeer
BY Invariant, PTL DEF IInv

\* Each buffer is empty, full or in one end's hands, once both have attached.
THEOREM BuffersAreAccounted == Spec => []BuffersAccounted
<1>1. IInv => BuffersAccounted
  BY DEF IInv, Types, BuffersAccounted, Accounts, Sum, Came, Busy, HandshakePending, Peers,
    Ends, Other
<1> QED
  BY <1>1, Invariant, PTL

----------------------------------------------------------------------------
(* The frames of a link that its consumer opens first: each one the        *)
(* consumer deserializes is the next one, complete.  With the producer     *)
(* first this is false, as MCProcessLinkRace shows.                        *)

\* The position k places after i in the ring.
At(i, k) == (i + k) % QueueSize

\* Until an owner is killed, the consumer owns the link.
ConsumerOwns ==
    "owner" \notin casualties =>
        /\ pc["consumer"] \in {"start", "create", "waitFull", "loop", "busy", "gone"}
        /\ pc["consumer"] = "start" => pc["producer"] = "start" /\ names = {}
        /\ OwnsInit("consumer") => "producer" \notin owner
        /\ Attached("consumer") => "consumer" \in owner

\* A consumer that attaches to a link it does not own has found the remains of
\* an owner killed in the handshake: there is its own post to fetch, no frame.
OpensRemains ==
    /\ Attached("consumer") /\ "consumer" \notin owner =>
         /\ "handshake" \in casualties /\ ~Attached("producer")
         /\ seen = 0 /\ fetched + fullLeft = 1 /\ buffers[0] = 0
         /\ pc["consumer"] = "busy" => fetched = 1
         /\ (fetched = 1 /\ pc["consumer"] = "loop") \/ currentBufferId["consumer"] = 0
    /\ "handshake" \in casualties => \A p \in Ends : ~OwnsRest(p)
    /\ seen = fetched \/ seen = fetched - 1

\* An end that has not come to its loop is at its beginning.
Fresh ==
    /\ pc["consumer"] \in {"start", "openInit", "waitInit", "attach", "create", "waitFull"} =>
         currentBufferId["consumer"] = 0 /\ seen = 0 /\ fetched = 0
    /\ pc["producer"] \in {"start", "openInit", "waitInit", "attach", "create", "waitFull"} =>
         currentBufferId["producer"] = 0 /\ pushed = 0

\* The link has been opened by the consumer and attached to.
Running == compatible /\ OwnsRest("consumer") /\ ~Unanswered

Read == currentBufferId["consumer"]

\* Frames that wait, and with them the one that is read.
Unread == fullLeft - (IF pc["consumer"] = "waitFull" THEN 1 ELSE 0)
Held == Unread + Busy("consumer")

\* From the consumer's position on the ring holds the next frames in order, and
\* the producer's position is behind them.
FramesInRing ==
    Running =>
        /\ Unread >= 0 /\ Held <= QueueSize
        /\ seen = fetched - Busy("consumer")
        /\ \A k \in 0..(Held - 1) : buffers[At(Read, k)] = seen + k + 1
        /\ Attached("producer") =>
             /\ currentBufferId["producer"] = At(Read, Held)
             /\ pushed = fetched + Unread

\* What is shown to be inductive, on top of IInv.
FInv ==
    /\ IInv
    /\ ConsumerOwns
    /\ OpensRemains
    /\ Fresh
    /\ FramesInRing

----------------------------------------------------------------------------
\* Adding at most one turn to a position needs at most one subtraction.
LEMMA AtIs ==
    ASSUME NEW i \in Slots, NEW k \in 0..QueueSize
    PROVE  /\ At(i, k) = IF i + k < QueueSize THEN i + k ELSE i + k - QueueSize
           /\ At(i, k) \in Slots
<1>1. CASE i + k < QueueSize
  BY <1>1, ProcessLinkAssumption DEF At, Slots
<1>2. CASE i + k >= QueueSize
  BY <1>2, ProcessLinkAssumption DEF At, Slots
<1> QED
  BY <1>1, <1>2, ProcessLinkAssumption DEF Slots

\* The places in the ring, one after the other.
LEMMA AtNext ==
    ASSUME NEW i \in Slots, NEW k \in 0..(QueueSize - 1)
    PROVE  /\ At(i, 0) = i
           /\ At(At(i, 1), k) = At(i, k + 1)
           /\ At(At(i, k), 1) = At(i, k + 1)
<1> USE ProcessLinkAssumption
<1>1. 0 \in 0..QueueSize /\ 1 \in 0..QueueSize /\ k \in 0..QueueSize
      /\ k + 1 \in 0..QueueSize
  OBVIOUS
<1>2. At(i, 0) = i
  BY <1>1, AtIs DEF Slots
<1>3. At(i, 1) = (IF i + 1 < QueueSize THEN i + 1 ELSE i + 1 - QueueSize) /\ At(i, 1) \in Slots
  BY <1>1, AtIs
<1>4. At(i, k) = (IF i + k < QueueSize THEN i + k ELSE i + k - QueueSize) /\ At(i, k) \in Slots
  BY <1>1, AtIs
<1>5. At(i, k + 1) = IF i + (k + 1) < QueueSize THEN i + (k + 1) ELSE i + (k + 1) - QueueSize
  BY <1>1, AtIs
<1>6. At(At(i, 1), k) = IF At(i, 1) + k < QueueSize THEN At(i, 1) + k ELSE At(i, 1) + k - QueueSize
  BY <1>1, <1>3, AtIs
<1>7. At(At(i, k), 1) = IF At(i, k) + 1 < QueueSize THEN At(i, k) + 1 ELSE At(i, k) + 1 - QueueSize
  BY <1>1, <1>4, AtIs
<1> QED
  BY <1>2, <1>3, <1>4, <1>5, <1>6, <1>7 DEF Slots

\* Places less than one turn apart are different.
LEMMA AtApart ==
    ASSUME NEW i \in Slots, NEW j \in 0..(QueueSize - 1), NEW k \in 0..(QueueSize - 1), j # k
    PROVE  At(i, j) # At(i, k)
<1> USE ProcessLinkAssumption
<1>1. j \in 0..QueueSize /\ k \in 0..QueueSize
  OBVIOUS
<1>2. At(i, j) = IF i + j < QueueSize THEN i + j ELSE i + j - QueueSize
  BY <1>1, AtIs
<1>3. At(i, k) = IF i + k < QueueSize THEN i + k ELSE i + k - QueueSize
  BY <1>1, AtIs
<1> QED
  BY <1>2, <1>3 DEF Slots

\* A consumer that fetches from its own link has opened it for its peer.
LEMMA OwnerRuns ==
    FInv /\ Attached("consumer") /\ "consumer" \in owner => Running
BY DEF FInv, IInv, Types, Announced, Unanswered, OnlyWithPeer, Running, OwnsRest, Attached, Ends

\* The frame that is read is the next one.
LEMMA NextFrame ==
    ASSUME FInv, Running, pc["consumer"] = "busy"
    PROVE  /\ buffers[Read] = seen + 1 /\ fetched = seen + 1
           /\ Held >= 1 /\ Read \in Slots
<1>1. Busy("consumer") = 1 /\ Unread >= 0 /\ Held <= QueueSize /\ fetched = seen + 1
  BY DEF FInv, IInv, Types, FramesInRing, Busy
<1>2. Unread = fullLeft /\ fullLeft \in Nat /\ Read \in Slots
  BY DEF FInv, IInv, Types, Unread, Ends, Read
<1>3. 0 \in 0..(Held - 1) /\ Held >= 1
  BY <1>1, <1>2 DEF Held
<1>4. buffers[At(Read, 0)] = seen + 0 + 1
  BY <1>3 DEF FInv, FramesInRing
<1>5. At(Read, 0) = Read
  BY <1>2, AtNext, ProcessLinkAssumption
<1> QED
  BY <1>1, <1>2, <1>3, <1>4, <1>5 DEF FInv, IInv, Types, Torn

\* While both are attached each buffer is empty, holds a frame of the consumer
\* or is in the producer's hands.
LEMMA Room ==
    ASSUME FInv, Running, Attached("producer")
    PROVE  /\ emptyLeft + Held + Busy("producer") = QueueSize
           /\ Held \in Nat /\ Unread \in Nat /\ Busy("consumer") \in {0, 1}
<1>1. ~HandshakePending \/ pc["consumer"] = "waitFull"
  BY DEF FInv, IInv, Types, Ownership, OpensRemains, HandshakePending, Running, OwnsRest,
    Attached,
         OwnsInit, Ends
<1>2. CASE pc["consumer"] = "waitFull"
  BY <1>2, ProcessLinkAssumption
  DEF FInv, IInv, Types, Accounts, Sum, Held, Unread, Busy, Came, Attached, Running, Ends,
    Other, FramesInRing
<1>3. CASE pc["consumer"] # "waitFull"
  BY <1>1, <1>3, ProcessLinkAssumption
  DEF FInv, IInv, Types, Accounts, Sum, Held, Unread, Busy, Came, Attached, Running,
    OwnsRest, Ends,
      FramesInRing
<1> QED
  BY <1>2, <1>3

\* The producer writes behind the frames of the consumer.
LEMMA WritesBehind ==
    ASSUME FInv, Running, Attached("producer"), Held < QueueSize, NEW k \in 0..(Held - 1)
    PROVE  At(Read, k) # currentBufferId["producer"] /\ At(Read, k) \in Slots
<1>1. Held \in Nat /\ Read \in Slots
  BY Room DEF FInv, IInv, Types, Read, Ends
<1>2. k \in 0..(QueueSize - 1) /\ Held \in 0..(QueueSize - 1) /\ k # Held
      /\ k \in 0..QueueSize
  BY <1>1, ProcessLinkAssumption
<1>3. currentBufferId["producer"] = At(Read, Held)
  BY DEF FInv, FramesInRing
<1> QED
  BY <1>1, <1>2, <1>3, AtApart, AtIs

\* The consumer has to open first, and there is no frame in the ring.
LEMMA InitFInv == Init => FInv
<1> SUFFICES ASSUME Init PROVE FInv
  OBVIOUS
<1>1. IInv
  BY InitIInv
<1> QED
  BY <1>1
  DEF Init, FInv, ConsumerOwns, OpensRemains, Fresh, FramesInRing, Running, OwnsRest, OwnsInit,
      Attached, Ends

\* The consumer stays the owner until one is killed.
LEMMA ConsumerOwnsStep == First = {"consumer"} /\ FInv /\ [Next]_vars => ConsumerOwns'
<1> SUFFICES ASSUME First = {"consumer"}, FInv, [Next]_vars PROVE ConsumerOwns'
  OBVIOUS
<1> USE ResourceNames
    DEF FInv, IInv, Types, Ends, Goto, shared, fate, Ownership, OwnsInit, OwnsRest,
        Attached, Remains, NamesOwned, Other, ConsumerOwns
<1>1. ASSUME NEW p \in Ends, Open(p)
      PROVE  ConsumerOwns'
  <2>1. CASE CreateInit(p)
    BY <2>1 DEF CreateInit
  <2>2. CASE FindInit(p)
    BY <2>2 DEF FindInit
  <2>3. CASE OpenInit(p)
    BY <2>3 DEF OpenInit
  <2>4. CASE CreateResources(p)
    BY <2>4 DEF CreateResources
  <2>5. CASE CreateConflict(p)
    BY <2>5 DEF CreateConflict
  <2>6. CASE OwnerAttached(p)
    BY <2>6 DEF OwnerAttached
  <2>7. CASE AwaitInit(p)
    BY <2>7 DEF AwaitInit
  <2>8. CASE Attach(p)
    BY <2>8 DEF Attach
  <2>9. CASE AttachMismatch(p)
    BY <2>9 DEF AttachMismatch
  <2> QED
    BY <1>1, <2>1, <2>2, <2>3, <2>4, <2>5, <2>6, <2>7, <2>8, <2>9 DEF Open
<1>2. ASSUME NEW p \in Ends, Destroy(p)
      PROVE  ConsumerOwns'
  BY <1>2 DEF Destroy
<1>3. ASSUME NEW p \in Ends, Kill(p)
      PROVE  ConsumerOwns'
  BY <1>3 DEF Kill
<1>4. ASSUME NEW p \in Ends, Restart(p)
      PROVE  ConsumerOwns'
  BY <1>4 DEF Restart
<1>5. CASE BeginPush
  BY <1>5 DEF BeginPush
<1>6. CASE EndPush
  BY <1>6 DEF EndPush
<1>7. CASE BeginFetch
  BY <1>7 DEF BeginFetch
<1>8. CASE EndFetch
  BY <1>8 DEF EndFetch
<1>9. CASE UNCHANGED vars
  BY <1>9 DEF vars
<1> QED
  BY <1>1, <1>2, <1>3, <1>4, <1>5, <1>6, <1>7, <1>8, <1>9, Steps

\* A consumer that opens remains fetches its own post and nothing else.
LEMMA OpensRemainsStep == First = {"consumer"} /\ FInv /\ [Next]_vars => OpensRemains'
<1> SUFFICES ASSUME First = {"consumer"}, FInv, [Next]_vars PROVE OpensRemains'
  OBVIOUS
<1> USE
    DEF FInv, IInv, Types, Ends, Goto, Wait, Post, shared, counters, fate, Ownership,
        OwnsInit, OwnsRest, Attached, Remains, RestLeft, Announced, Unanswered, Peers, Other,
        ConsumerOwns, OpensRemains, Fresh
<1>1. ASSUME NEW p \in Ends, Open(p)
      PROVE  OpensRemains'
  <2>1. CASE CreateInit(p)
    BY <2>1 DEF CreateInit
  <2>2. CASE FindInit(p)
    BY <2>2 DEF FindInit
  <2>3. CASE OpenInit(p)
    BY <2>3 DEF OpenInit
  <2>4. CASE CreateResources(p)
    BY <2>4 DEF CreateResources
  <2>5. CASE CreateConflict(p)
    BY <2>5 DEF CreateConflict
  <2>6. CASE OwnerAttached(p)
    BY <2>6 DEF OwnerAttached
  <2>7. CASE AwaitInit(p)
    BY <2>7 DEF AwaitInit
  <2>8. CASE Attach(p)
    BY <2>8 DEF Attach
  <2>9. CASE AttachMismatch(p)
    BY <2>9 DEF AttachMismatch
  <2> QED
    BY <1>1, <2>1, <2>2, <2>3, <2>4, <2>5, <2>6, <2>7, <2>8, <2>9 DEF Open
<1>2. ASSUME NEW p \in Ends, Destroy(p)
      PROVE  OpensRemains'
  BY <1>2 DEF Destroy
<1>3. ASSUME NEW p \in Ends, Kill(p)
      PROVE  OpensRemains'
  BY <1>3 DEF Kill
<1>4. ASSUME NEW p \in Ends, Restart(p)
      PROVE  OpensRemains'
  BY <1>4 DEF Restart
<1>5. CASE BeginPush
  BY <1>5 DEF BeginPush
<1>6. CASE EndPush
  BY <1>6 DEF EndPush
<1>7. CASE BeginFetch
  <2>1. CASE "consumer" \in owner
    <3>1. Running
      BY <1>7, <2>1, OwnerRuns DEF BeginFetch
    <3>2. seen = fetched
      BY <1>7, <3>1 DEF BeginFetch, FramesInRing, Busy
    <3> QED
      BY <1>7, <2>1, <3>2 DEF BeginFetch
  <2>2. CASE "consumer" \notin owner
    BY <1>7, <2>2 DEF BeginFetch
  <2> QED
    BY <2>1, <2>2
<1>8. CASE EndFetch
  <2>1. CASE "consumer" \in owner
    <3>1. Running
      BY <1>8, <2>1, OwnerRuns DEF EndFetch
    <3>2. seen' = fetched
      BY <1>8, <3>1, NextFrame DEF EndFetch, Read
    <3> QED
      BY <1>8, <2>1, <3>2 DEF EndFetch
  <2>2. CASE "consumer" \notin owner
    BY <1>8, <2>2 DEF EndFetch, Slots
  <2> QED
    BY <2>1, <2>2
<1>9. CASE UNCHANGED vars
  BY <1>9 DEF vars
<1> QED
  BY <1>1, <1>2, <1>3, <1>4, <1>5, <1>6, <1>7, <1>8, <1>9, Steps

\* An end starts at its beginning.
LEMMA FreshStep == First = {"consumer"} /\ FInv /\ [Next]_vars => Fresh'
<1> SUFFICES ASSUME First = {"consumer"}, FInv, [Next]_vars PROVE Fresh'
  OBVIOUS
<1> USE
    DEF FInv, IInv, Types, Goto, counters, Fresh, Advance
<1>1. ASSUME NEW p \in Ends, Open(p)
      PROVE  Fresh'
  <2>1. CASE CreateInit(p)
    BY <2>1 DEF CreateInit
  <2>2. CASE FindInit(p)
    BY <2>2 DEF FindInit
  <2>3. CASE OpenInit(p)
    BY <2>3 DEF OpenInit
  <2>4. CASE CreateResources(p)
    BY <2>4 DEF CreateResources
  <2>5. CASE CreateConflict(p)
    BY <2>5 DEF CreateConflict
  <2>6. CASE OwnerAttached(p)
    BY <2>6 DEF OwnerAttached
  <2>7. CASE AwaitInit(p)
    BY <2>7 DEF AwaitInit
  <2>8. CASE Attach(p)
    BY <2>8 DEF Attach
  <2>9. CASE AttachMismatch(p)
    BY <2>9 DEF AttachMismatch
  <2> QED
    BY <1>1, <2>1, <2>2, <2>3, <2>4, <2>5, <2>6, <2>7, <2>8, <2>9 DEF Open
<1>2. ASSUME NEW p \in Ends, Destroy(p)
      PROVE  Fresh'
  BY <1>2 DEF Destroy
<1>3. ASSUME NEW p \in Ends, Kill(p)
      PROVE  Fresh'
  BY <1>3 DEF Kill
<1>4. ASSUME NEW p \in Ends, Restart(p)
      PROVE  Fresh'
  BY <1>4 DEF Restart
<1>5. CASE BeginPush
  BY <1>5 DEF BeginPush
<1>6. CASE EndPush
  BY <1>6 DEF EndPush
<1>7. CASE BeginFetch
  BY <1>7 DEF BeginFetch
<1>8. CASE EndFetch
  BY <1>8 DEF EndFetch
<1>9. CASE UNCHANGED vars
  BY <1>9 DEF vars
<1> QED
  BY <1>1, <1>2, <1>3, <1>4, <1>5, <1>6, <1>7, <1>8, <1>9, Steps

\* Every step keeps the frames in order and the two positions apart.
LEMMA FramesInRingStep == First = {"consumer"} /\ FInv /\ [Next]_vars => FramesInRing'
<1> SUFFICES ASSUME First = {"consumer"}, FInv, [Next]_vars PROVE FramesInRing'
  OBVIOUS
<1> USE
    DEF FInv, IInv, Types, Ends, Goto, Wait, Post, shared, counters, Ownership, OwnsInit,
        OwnsRest, Attached, Announced, Unanswered, Fresh, Running
<1>1. ASSUME NEW p \in Ends, Open(p)
      PROVE  FramesInRing'
  <2>1. CASE CreateInit(p)
    BY <2>1 DEF CreateInit, FramesInRing, Unread, Held, Read, Busy
  <2>2. CASE FindInit(p)
    <3>1. Running' => Running
      BY ONLY <2>2, Types
      DEF FindInit, Types, Running, Unanswered, OwnsRest, shared, fate, Goto, Ends
    <3> HIDE DEF Running
    <3> QED
      BY <2>2, <3>1 DEF FindInit, FramesInRing, Unread, Held, Read, Busy
  <2>3. CASE OpenInit(p)
    <3>1. Running' => Running
      BY ONLY <2>3, Types
      DEF OpenInit, Types, Running, Unanswered, OwnsRest, shared, fate, Goto, Ends
    <3> HIDE DEF Running
    <3> QED
      BY <2>3, <3>1 DEF OpenInit, FramesInRing, Unread, Held, Read, Busy
  <2>4. CASE CreateResources(p)
    BY <2>4 DEF CreateResources, FramesInRing, Unread, Held, Read, Busy
  <2>5. CASE CreateConflict(p)
    BY <2>5 DEF CreateConflict, FramesInRing, Unread, Held, Read, Busy
  <2>6. CASE OwnerAttached(p)
    BY <2>6 DEF OwnerAttached, FramesInRing, Unread, Held, Read, Busy
  <2>7. CASE AwaitInit(p)
    BY <2>7 DEF AwaitInit, FramesInRing
  <2>8. CASE Attach(p)
    <3>1. CASE p = "producer"
      <4>1. Unanswered /\ fullLeft = 0 /\ fullLeft' = 1
        BY <2>8 DEF Attach
      <4>2. SUFFICES ASSUME OwnsRest("consumer") PROVE FramesInRing'
        BY <2>8, <3>1 DEF Attach, FramesInRing
      <4>3. pc["consumer"] = "waitFull"
        BY <4>1, <4>2
      <4>4. Unread' = 0 /\ Held' = 0
        BY <2>8, <3>1, <4>1, <4>3 DEF Attach, Unread, Held, Busy
      <4>5. At(0, 0) = 0
        BY AtNext, ProcessLinkAssumption DEF Slots
      <4> QED
        BY <2>8, <3>1, <4>3, <4>4, <4>5 DEF Attach, FramesInRing, Read, Busy
    <3>2. CASE p = "consumer"
      BY <2>8, <3>2 DEF Attach, FramesInRing
    <3> QED
      BY <3>1, <3>2
  <2>9. CASE AttachMismatch(p)
    BY <2>9 DEF AttachMismatch, Valid, FramesInRing
  <2> QED
    BY <1>1, <2>1, <2>2, <2>3, <2>4, <2>5, <2>6, <2>7, <2>8, <2>9 DEF Open
<1>2. ASSUME NEW p \in Ends, Destroy(p)
      PROVE  FramesInRing'
  BY <1>2 DEF Destroy, FramesInRing, Unread, Held, Read, Busy
<1>3. ASSUME NEW p \in Ends, Kill(p)
      PROVE  FramesInRing'
  <2>1. Running' => p = "producer" /\ OwnsRest("consumer") /\ compatible
    BY ONLY <1>3, Types DEF Kill, Types, Running, OwnsRest, Goto, Ends
  <2>2. p = "producer" => (Unanswered => Unanswered')
    BY ONLY <1>3, Types, Ownership
    DEF Kill, Types, Ownership, Unanswered, OwnsInit, Attached, Goto, Ends
  <2>3. Running' => Running /\ p = "producer"
    BY ONLY <2>1, <2>2 DEF Running
  <2> QED
    BY ONLY <1>3, <2>3, Types, FramesInRing
    DEF Kill, Types, FramesInRing, Attached, Unread, Held, Read, Busy, counters, Goto, Ends
<1>4. ASSUME NEW p \in Ends, Restart(p)
      PROVE  FramesInRing'
  <2>1. Running' => Running /\ p = "producer"
    BY ONLY <1>4, Types
    DEF Restart, Types, Running, Unanswered, OwnsRest, shared, fate, Goto, Ends
  <2> QED
    BY ONLY <1>4, <2>1, Types, FramesInRing
    DEF Restart, Types, FramesInRing, Attached, Unread, Held, Read, Busy, shared, Goto, Ends
<1>5. CASE BeginPush
  <2> SUFFICES ASSUME Running PROVE FramesInRing'
    BY <1>5 DEF BeginPush, FramesInRing
  <2>1. Held < QueueSize /\ Held \in Nat
    BY <1>5, Room DEF BeginPush, Busy
  <2>2. UNCHANGED <<Held, Unread, Read, seen, fetched, pushed, currentBufferId>>
    BY <1>5 DEF BeginPush, Held, Unread, Read, Busy
  <2>3. \A k \in 0..(Held - 1) : At(Read, k) # currentBufferId["producer"] /\ At(Read, k) \in Slots
    BY <1>5, <2>1, WritesBehind DEF BeginPush
  <2>4. \A k \in 0..(Held - 1) : buffers'[At(Read, k)] = buffers[At(Read, k)]
    BY <1>5, <2>3 DEF BeginPush
  <2> QED
    BY <1>5, <2>2, <2>4 DEF BeginPush, FramesInRing, Busy, At
<1>6. CASE EndPush
  <2> SUFFICES ASSUME Running PROVE FramesInRing'
    BY <1>6 DEF EndPush, FramesInRing
  <2>1. Held < QueueSize /\ Held \in Nat /\ Unread \in Nat
    BY <1>6, Room DEF EndPush, Busy
  <2>2. /\ Held' = Held + 1 /\ Unread' = Unread + 1
        /\ UNCHANGED <<Read, seen, fetched>> /\ Busy("consumer")' = Busy("consumer")
    BY <1>6, <2>1 DEF EndPush, Advance, Held, Unread, Read, Busy
  <2>3. \A k \in 0..(Held - 1) : At(Read, k) # currentBufferId["producer"] /\ At(Read, k) \in Slots
    BY <1>6, <2>1, WritesBehind DEF EndPush
  <2>4. \A k \in 0..(Held - 1) : buffers'[At(Read, k)] = seen + k + 1
    BY <1>6, <2>3 DEF EndPush, FramesInRing
  <2>5. /\ currentBufferId["producer"] = At(Read, Held) /\ At(Read, Held) \in Slots
        /\ pushed = seen + Held
    <3>1. Read \in Slots /\ Held \in 0..QueueSize
      BY <2>1, ProcessLinkAssumption DEF Read
    <3>2. currentBufferId["producer"] = At(Read, Held) /\ pushed = fetched + Unread
      BY <1>6 DEF EndPush, FramesInRing
    <3>3. seen = fetched - Busy("consumer") /\ Busy("consumer") \in {0, 1}
      BY DEF FramesInRing, Busy
    <3>4. At(Read, Held) \in Slots
      BY <3>1, AtIs
    <3>5. pushed = seen + Held
      BY <2>1, <3>2, <3>3 DEF Held
    <3> QED
      BY <3>2, <3>4, <3>5
  <2>6. buffers'[At(Read, Held)] = seen + Held + 1
    BY <1>6, <2>5 DEF EndPush
  <2>7. \A k \in 0..Held : buffers'[At(Read, k)] = seen + k + 1
    <3> TAKE k \in 0..Held
    <3>1. CASE k = Held
      BY <3>1, <2>6
    <3>2. CASE k # Held
      BY <3>2, <2>1, <2>4
    <3> QED
      BY <3>1, <3>2
  <2>8. currentBufferId'["producer"] = At(Read, Held + 1)
    <3>1. currentBufferId'["producer"] = At(currentBufferId["producer"], 1)
      BY <1>6 DEF EndPush, Advance, At
    <3>2. Held \in 0..(QueueSize - 1) /\ Read \in Slots
      BY <2>1, ProcessLinkAssumption DEF Read
    <3> QED
      BY <2>5, <3>1, <3>2, AtNext
  <2>9. seen' = fetched' - Busy("consumer")' /\ pushed' = fetched' + Unread'
    BY <1>6, <2>1, <2>2 DEF EndPush, FramesInRing
  <2>10. Held' - 1 = Held
    BY <2>1, <2>2
  <2>11. \A k \in 0..(Held' - 1) : buffers'[At(Read', k)] = seen' + k + 1
    BY <2>2, <2>7, <2>10
  <2>12. Unread' >= 0 /\ Held' <= QueueSize
    BY <2>1, <2>2, ProcessLinkAssumption
  <2> QED
    BY <2>2, <2>8, <2>9, <2>11, <2>12 DEF FramesInRing, At
<1>7. CASE BeginFetch
  <2> SUFFICES ASSUME Running PROVE FramesInRing'
    BY <1>7 DEF BeginFetch, FramesInRing
  <2>1. UNCHANGED <<Held, Read, seen, pushed, buffers, currentBufferId>>
    BY <1>7 DEF BeginFetch, Held, Unread, Read, Busy
  <2>2. /\ Unread' = Unread - 1 /\ Unread' >= 0 /\ fetched' = fetched + 1
        /\ Busy("consumer") = 0 /\ Busy("consumer")' = 1
    BY <1>7 DEF BeginFetch, Unread, Busy
  <2>3. Attached("producer")' => Attached("producer")
    BY <1>7 DEF BeginFetch
  <2>4. Unread \in Int /\ seen \in Int /\ fetched \in Int /\ pushed \in Int
    BY <1>7 DEF BeginFetch, Unread
  <2> QED
    BY <2>1, <2>2, <2>3, <2>4 DEF FramesInRing, At
<1>8. CASE EndFetch
  <2> SUFFICES ASSUME Running PROVE FramesInRing'
    BY <1>8 DEF EndFetch, FramesInRing
  <2>1. /\ seen' = seen + 1 /\ fetched' = seen + 1 /\ Held >= 1 /\ Read \in Slots
        /\ UNCHANGED <<buffers, pushed, Unread>>
    BY <1>8, NextFrame DEF EndFetch, Advance, Read, Unread
  <2>2. /\ Busy("consumer")' = 0 /\ Held' = Held - 1 /\ Held \in Int /\ Held <= QueueSize
        /\ Held' = Unread' /\ Unread \in Int
    BY <1>8 DEF EndFetch, FramesInRing, Busy, Held, Unread
  <2>3. Read' = At(Read, 1)
    BY <1>8 DEF EndFetch, Advance, Read, At
  <2>4. \A k \in 0..(Held - 1) : buffers[At(Read, k)] = seen + k + 1
    BY DEF FramesInRing
  <2>5. \A k \in 0..(Held - 2) : buffers[At(At(Read, 1), k)] = (seen + 1) + k + 1
    <3> TAKE k \in 0..(Held - 2)
    <3>1. k \in 0..(QueueSize - 1) /\ k + 1 \in 0..(Held - 1)
      BY <2>1, <2>2, ProcessLinkAssumption
    <3>2. At(At(Read, 1), k) = At(Read, k + 1)
      BY <2>1, <3>1, AtNext
    <3>3. buffers[At(Read, k + 1)] = seen + (k + 1) + 1
      BY <2>4, <3>1
    <3> QED
      BY <3>2, <3>3
  <2>6. Attached("producer") =>
          currentBufferId'["producer"] = At(At(Read, 1), Held - 1)
          /\ pushed = fetched + Unread
    <3> SUFFICES ASSUME Attached("producer")
                 PROVE  currentBufferId'["producer"] = At(At(Read, 1), Held - 1)
                        /\ pushed = fetched + Unread
      OBVIOUS
    <3>1. currentBufferId["producer"] = At(Read, Held) /\ pushed = fetched + Unread
      BY DEF FramesInRing
    <3>2. currentBufferId'["producer"] = currentBufferId["producer"]
      BY <1>8 DEF EndFetch, Advance
    <3>3. Held - 1 \in 0..(QueueSize - 1) /\ (Held - 1) + 1 = Held
      BY <2>1, <2>2, ProcessLinkAssumption
    <3>4. At(At(Read, 1), Held - 1) = At(Read, Held)
      BY <2>1, <3>3, AtNext
    <3> QED
      BY <3>1, <3>2, <3>4
  <2>7. Attached("producer")' => Attached("producer")
    BY <1>8 DEF EndFetch
  <2>8. fetched' = fetched /\ fetched = seen + 1
    BY <1>8, <2>1 DEF EndFetch
  <2>9. Held' - 1 = Held - 2 /\ Unread' >= 0 /\ Held' <= QueueSize
    BY <2>1, <2>2, ProcessLinkAssumption
  <2>10. \A k \in 0..(Held' - 1) : buffers'[At(Read', k)] = seen' + k + 1
    BY <2>1, <2>3, <2>5, <2>9
  <2>11. seen' = fetched' - Busy("consumer")'
    BY <2>1, <2>2
  <2>12. Attached("producer")' =>
           currentBufferId'["producer"] = At(Read', Held') /\ pushed' = fetched' + Unread'
    BY <2>1, <2>2, <2>3, <2>6, <2>7, <2>8
  <2> QED
    BY <2>9, <2>10, <2>11, <2>12 DEF FramesInRing, At
<1>9. CASE UNCHANGED vars
  BY ONLY <1>9, FInv
  DEF vars, shared, counters, fate, FInv, FramesInRing, Running, Unanswered, OwnsRest, Attached,
      Unread, Held, Read, Busy
<1> QED
  BY <1>1, <1>2, <1>3, <1>4, <1>5, <1>6, <1>7, <1>8, <1>9, Steps

\* What is inductive holds throughout, when the consumer opens the link first.
THEOREM FramesInvariant ==
    ASSUME First = {"consumer"}
    PROVE  Spec => []FInv
<1>1. FInv /\ [Next]_vars /\ IInv' => FInv'
  BY ConsumerOwnsStep, OpensRemainsStep, FreshStep, FramesInRingStep DEF FInv
<1>2. FInv => IInv
  BY DEF FInv
<1> QED
  BY <1>1, <1>2, InitFInv, Invariant, PTL DEF Spec

\* Every frame the consumer deserializes is the next one, complete, for every
\* queue size and however often either process is killed and started again;
\* only a consumer that opens the remains of a killed handshake takes one post
\* for a frame (ProcessLink::push and fetch, openResources).
THEOREM FramesAreGenuine ==
    ASSUME First = {"consumer"}
    PROVE  Spec => []FramesGenuine
<1>1. FInv => FramesGenuine
  <2> SUFFICES ASSUME FInv PROVE FramesGenuine
    OBVIOUS
  <2>1. seen = fetched - Reading
    BY DEF FInv, IInv, Types, OpensRemains, Reading, Torn
  <2>2. ASSUME "handshake" \in casualties, Attached("consumer")
        PROVE  fetched <= 1 /\ seen = 0
    BY <2>2, ProcessLinkAssumption
    DEF FInv, IInv, Types, OpensRemains, OwnsRest, Attached, Ends
  <2> QED
    BY <2>1, <2>2 DEF FramesGenuine, Attached
<1> QED
  BY <1>1, FramesInvariant, PTL

----------------------------------------------------------------------------
(* The refinement: until an end that had a part in the link is started     *)
(* again, the link is a bounded queue.                                     *)

\* The producer has not attached yet, though it may have been killed trying.
Unjoined ==
    \/ pc["producer"] \in {"start", "openInit", "waitInit", "attach"}
    \/ pc["producer"] = "killed" /\ "peer" \notin casualties

\* The ends that are killed and not started again.
Down == (IF pc["producer"] = "killed" THEN 1 ELSE 0) + (IF pc["consumer"] = "killed" THEN 1 ELSE 0)

\* Kills are counted.
Counted == Down <= kills /\ (casualties # {} => kills >= 1)

\* Until then the consumer has the one life in which it owns the link, and the
\* producer attaches once.
FirstLives ==
    ~Reused =>
        /\ pc["consumer"] \in {"start", "create", "waitFull", "loop", "busy", "gone", "killed"}
        /\ "producer" \notin owner
        /\ "owner" \in casualties <=> pc["consumer"] = "killed"
        /\ pc["consumer"] \in {"start", "create"} => Unjoined
        /\ Unjoined =>
             \/ pc["consumer"] = "start"
             \/ pc["consumer"] \in {"create", "waitFull", "killed"} /\ "init" \in names

\* Frames in the ring that the consumer has not done with.
Ahead == QueueLength + Reading

\* A consumer that lives reads only where the code reads.
ReadsWhenBusy ==
    ~Reused /\ pc["consumer"] # "killed" => (Reading = 1 <=> pc["consumer"] = "busy")

\* Nothing happens in the ring before the producer attaches.
Beginning ==
    ~Reused /\ Unjoined =>
        /\ pushed = 0 /\ fetched = 0 /\ seen = 0 /\ QueueLength = 0
        /\ currentBufferId["producer"] = 0 /\ currentBufferId["consumer"] = 0

\* Then the ring holds the frames after the last one seen, in order, also when
\* the consumer was killed reading the first of them.
RingInOrder ==
    ~Reused =>
        /\ QueueLength >= 0 /\ Ahead <= QueueSize
        /\ \A k \in 0..(Ahead - 1) : buffers[At(Read, k)] = seen + k + 1
        /\ Attached("producer") =>
             /\ currentBufferId["producer"] = At(Read, Ahead)
             /\ pushed = seen + Ahead
             /\ emptyLeft + Ahead + Busy("producer") <= QueueSize

\* What is shown to be inductive, on top of FInv.
QInv ==
    /\ FInv
    /\ Counted
    /\ FirstLives
    /\ ReadsWhenBusy
    /\ Beginning
    /\ RingInOrder

----------------------------------------------------------------------------
\* How many of the two ends are somewhere.
LEMMA CountEnds ==
    ASSUME NEW f
    PROVE  Cardinality({p \in Ends : f[p] = "killed"})
             = (IF f["producer"] = "killed" THEN 1 ELSE 0) + (IF f["consumer"] = "killed" THEN 1 ELSE 0)
<1> DEFINE Dead == {p \in Ends : f[p] = "killed"}
<1>1. CASE f["producer"] = "killed" /\ f["consumer"] = "killed"
  <2>1. Dead = {"producer"} \cup {"consumer"} /\ "consumer" \notin {"producer"}
    BY <1>1 DEF Ends
  <2>2. Cardinality({"producer"}) = 1 /\ IsFiniteSet({"producer"})
    BY FS_Singleton
  <2>3. Cardinality({"producer"} \cup {"consumer"}) = 2
    <3>1. Cardinality({"producer"} \cup {"consumer"}) = Cardinality({"producer"}) + 1
      BY ONLY <2>1, <2>2, FS_AddElement
    <3> QED
      BY <2>2, <3>1
  <2> QED
    BY <1>1, <2>1, <2>3
<1>2. CASE f["producer"] = "killed" /\ f["consumer"] # "killed"
  <2>1. Dead = {"producer"}
    BY <1>2 DEF Ends
  <2>2. Cardinality({"producer"}) = 1
    BY FS_Singleton
  <2> QED
    BY <1>2, <2>1, <2>2
<1>3. CASE f["producer"] # "killed" /\ f["consumer"] = "killed"
  <2>1. Dead = {"consumer"}
    BY <1>3 DEF Ends
  <2>2. Cardinality(Dead) = 1
    BY <2>1, FS_Singleton
  <2> QED
    BY <1>3, <2>2
<1>4. CASE f["producer"] # "killed" /\ f["consumer"] # "killed"
  <2>1. Dead = {}
    BY <1>4 DEF Ends
  <2> QED
    BY <1>4, <2>1, FS_EmptySet
<1> QED
  BY <1>1, <1>2, <1>3, <1>4

\* Who is started again has been killed, and had a part if anybody had.
LEMMA ReusedIs ==
    /\ Reused <=> casualties # {} /\ kills > Down
    /\ Reused' <=> casualties' # {} /\ kills' > Down'
<1>1. Cardinality({p \in Ends : pc[p] = "killed"}) = Down
  BY CountEnds DEF Down
<1>2. Cardinality({p \in Ends : pc'[p] = "killed"}) = Down'
  BY CountEnds DEF Down
<1> QED
  BY <1>1, <1>2 DEF Reused

\* Kills are counted, and an end is started again for good.
LEMMA DownStep ==
    ASSUME FInv, Counted, [Next]_vars
    PROVE  Counted' /\ (Reused => Reused')
<1> USE DEF Counted, FInv, IInv, Types, Ends, Goto, fate, Down
<1>1. ASSUME NEW p \in Ends, Open(p)
      PROVE  UNCHANGED <<Down, kills, casualties>>
  BY <1>1 DEF Open, CreateInit, FindInit, OpenInit, CreateResources, CreateConflict,
              OwnerAttached, AwaitInit, Attach, AttachMismatch
<1>2. ASSUME NEW p \in Ends, Destroy(p)
      PROVE  UNCHANGED <<Down, kills, casualties>>
  BY <1>2 DEF Destroy
<1>3. ASSUME NEW p \in Ends, Kill(p)
      PROVE  Down' = Down + 1 /\ kills' = kills + 1 /\ (casualties # {} => casualties' # {})
  BY <1>3 DEF Kill
<1>4. ASSUME NEW p \in Ends, Restart(p)
      PROVE  Down' = Down - 1 /\ UNCHANGED <<kills, casualties>>
  BY <1>4 DEF Restart
<1>5. ASSUME BeginPush \/ EndPush \/ BeginFetch \/ EndFetch \/ UNCHANGED vars
      PROVE  UNCHANGED <<Down, kills, casualties>>
  BY <1>5 DEF BeginPush, EndPush, BeginFetch, EndFetch, vars
<1>6. Down \in Nat /\ kills \in Nat
  OBVIOUS
<1>7. \/ UNCHANGED <<Down, kills, casualties>>
      \/ Down' = Down + 1 /\ kills' = kills + 1 /\ (casualties # {} => casualties' # {})
      \/ Down' = Down - 1 /\ UNCHANGED <<kills, casualties>>
  BY <1>1, <1>2, <1>3, <1>4, <1>5, Steps
<1> HIDE DEF Down
<1> QED
  BY <1>6, <1>7, ReusedIs

\* Starting an end again that had a part in the link, or after one that had is
\* killed, is what Reused means.
LEMMA NotReused ==
    ASSUME FInv, Counted, NEW p \in Ends, Restart(p), ~Reused'
    PROVE  casualties = {}
<1>1. Down' = Down - 1 /\ UNCHANGED <<kills, casualties>>
  BY DEF FInv, IInv, Types, Ends, Goto, fate, Down, Restart
<1>2. Down \in Nat /\ kills \in Nat
  BY DEF FInv, IInv, Types, Down
<1> QED
  BY <1>1, <1>2, ReusedIs DEF Counted

\* At most one frame is being read.
LEMMA ReadingIs ==
    FInv => fetched = seen + Reading /\ Reading \in 0..1 /\ QueueLength \in Int /\ Ahead \in Int
BY DEF FInv, IInv, Types, OpensRemains, Reading, QueueLength, Ahead, Torn

\* The post the owner waits for is that of a producer that has attached.
LEMMA JoinedWhenPosted ==
    ASSUME QInv, ~Reused, pc["consumer"] = "waitFull", fullLeft > 0
    PROVE  ~Unjoined /\ ~Unanswered /\ compatible
<1>1. ~Unanswered /\ compatible
  BY DEF QInv, FInv, IInv, Types, Announced, Unanswered, Peers, Ends
<1>2. CASE casualties = {}
  BY <1>1, <1>2 DEF QInv, FInv, IInv, Types, Peers, Came, Unjoined, Ends, Other
<1>3. CASE casualties # {}
  <2>1. kills <= Down /\ kills >= 1
    BY <1>3, ReusedIs DEF QInv, Counted, FInv, IInv, Types, Down
  <2>2. pc["producer"] = "killed"
    BY <2>1 DEF QInv, FInv, IInv, Types, Down
  <2>3. "peer" \in casualties
    BY <1>1, <1>3 DEF QInv, FInv, IInv, Types, Remains, FirstLives, Unanswered
  <2> QED
    BY <1>1, <2>2, <2>3 DEF Unjoined
<1> QED
  BY <1>2, <1>3

\* Where the ends are until somebody who had a part is started again.
LEMMA FirstLivesStep ==
    ASSUME First = {"consumer"}, QInv, [Next]_vars
    PROVE  FirstLives'
<1> SUFFICES ASSUME ~Reused' PROVE FirstLives'
  BY DEF FirstLives
<1>0. ~Reused
  BY DownStep DEF QInv
<1> HIDE DEF Reused
<1> USE <1>0
    DEF QInv, FInv, IInv, Types, Ends, Other, Goto, Unlink, shared, fate,
        Ownership, OwnsInit, OwnsRest, Attached, Unjoined, FirstLives
<1>1. ASSUME NEW p \in Ends, Open(p)
      PROVE  FirstLives'
  <2>1. CASE CreateInit(p)
    BY <2>1 DEF CreateInit
  <2>2. CASE FindInit(p)
    BY <2>2 DEF FindInit, ConsumerOwns
  <2>3. CASE OpenInit(p)
    BY <2>3 DEF OpenInit, ConsumerOwns
  <2>4. CASE CreateResources(p)
    BY <2>4 DEF CreateResources
  <2>5. CASE CreateConflict(p)
    <3>1. FALSE
      BY <2>5, ResourceNames DEF CreateConflict, Remains, NamesOwned, ConsumerOwns
    <3> QED
      BY <3>1
  <2>6. CASE OwnerAttached(p)
    <3>1. p = "consumer" /\ pc["consumer"] = "waitFull" /\ ~Unjoined
        BY <2>6, JoinedWhenPosted DEF OwnerAttached, Wait
    <3> QED
      BY <2>6, <3>1 DEF OwnerAttached
  <2>7. CASE AwaitInit(p)
    BY <2>7 DEF AwaitInit, ConsumerOwns
  <2>8. CASE Attach(p)
    <3>1. p = "producer" /\ pc["consumer"] \notin {"start", "create"}
      BY <2>8 DEF Attach, Announced, Unanswered, Remains
    <3> QED
      BY <2>8, <3>1 DEF Attach
  <2>9. CASE AttachMismatch(p)
    <3>1. p = "producer" /\ pc["consumer"] \notin {"start", "create"}
      BY <2>9 DEF AttachMismatch, Announced, Unanswered, Remains
    <3> QED
      BY <2>9, <3>1 DEF AttachMismatch
  <2> QED
    BY <1>1, <2>1, <2>2, <2>3, <2>4, <2>5, <2>6, <2>7, <2>8, <2>9 DEF Open
<1>2. ASSUME NEW p \in Ends, Destroy(p)
      PROVE  FirstLives'
  <2>1. UNCHANGED <<casualties>> /\ ~Unjoined'
    BY <1>2 DEF Destroy
  <2> QED
    BY <1>2, <2>1 DEF Destroy
<1>3. ASSUME NEW p \in Ends, Kill(p)
      PROVE  FirstLives'
  <2>1. names \subseteq names' /\ pc' = [pc EXCEPT ![p] = "killed"] /\ owner' = owner \ {p}
    BY <1>3 DEF Kill
  <2>2. CASE p = "producer"
    <3>1. casualties' = casualties \cup (IF Attached("producer") THEN {"peer"}
                                        ELSE IF pc["producer"] = "attach" THEN {"attacher"}
                                        ELSE {})
      BY <1>3, <2>2 DEF Kill
    <3>2. Unjoined' => Unjoined
      BY <1>3, <2>1, <2>2, <3>1 DEF Kill
    <3>4. pc["consumer"] \in {"start", "create"} => Unjoined'
      <4> SUFFICES ASSUME pc["consumer"] \in {"start", "create"} PROVE Unjoined'
        OBVIOUS
      <4>0. pc["producer"] # "attach"
        BY DEF Announced, Unanswered, Remains
      <4>1. pc["producer"] \in {"openInit", "waitInit"} /\ casualties' = casualties
        BY <1>3, <2>2, <3>1, <4>0 DEF Kill
      <4>2. Down = 0
        BY <4>1 DEF Down
      <4>3. casualties = {}
        BY <4>2, ReusedIs DEF Counted
      <4> QED
        BY <2>1, <2>2, <4>1, <4>3
    <3>3. /\ pc'["consumer"] = pc["consumer"] /\ "producer" \notin owner'
          /\ "owner" \in casualties' <=> "owner" \in casualties
      BY <2>1, <2>2, <3>1
    <3> HIDE DEF Unjoined
    <3> QED
      BY <2>1, <3>2, <3>3, <3>4
  <2>3. CASE p = "consumer"
    <3>1. "owner" \in casualties' /\ ("peer" \in casualties' <=> "peer" \in casualties)
      BY <1>3, <2>3 DEF Kill, ConsumerOwns
    <3> QED
      BY <1>3, <2>1, <2>3, <3>1 DEF Kill
  <2> QED
    BY <2>2, <2>3
<1>4. ASSUME NEW p \in Ends, Restart(p)
      PROVE  FirstLives'
  <2>1. casualties = {} /\ p = "producer" /\ Unjoined
    BY <1>4, NotReused DEF Restart
  <2> QED
    BY <1>4, <2>1 DEF Restart
<1>5. CASE BeginPush
  BY <1>5 DEF BeginPush
<1>6. CASE EndPush
  BY <1>6 DEF EndPush
<1>7. CASE BeginFetch
  BY <1>7 DEF BeginFetch
<1>8. CASE EndFetch
  BY <1>8 DEF EndFetch
<1>9. CASE UNCHANGED vars
  BY <1>9 DEF vars
<1> QED
  BY <1>1, <1>2, <1>3, <1>4, <1>5, <1>6, <1>7, <1>8, <1>9, Steps

\* Whether the handshake is pending.
LEMMA PendingIs ==
    ASSUME QInv, ~Reused
    PROVE  HandshakePending <=>
             /\ compatible /\ ~Unanswered
             /\ pc["consumer"] = "waitFull" \/ "handshake" \in casualties
BY DEF QInv, FInv, IInv, Types, Ownership, OwnsInit, Ends, FirstLives, HandshakePending

\* Whether it is pending after a step.
LEMMA PendingNext ==
    ASSUME First = {"consumer"}, QInv, [Next]_vars, ~Reused'
    PROVE  HandshakePending' <=>
             /\ compatible' /\ ~Unanswered'
             /\ pc'["consumer"] = "waitFull" \/ "handshake" \in casualties'
<1>1. FirstLives' /\ Ownership' /\ Types'
  BY FirstLivesStep, OwnershipStep, TypesStep DEF QInv, FInv
<1>2. "producer" \notin owner' /\ owner' \subseteq Ends
  BY <1>1 DEF FirstLives, Types
<1>3. pc'["consumer"] = "waitFull" => "consumer" \in owner'
  BY <1>1 DEF Ownership, OwnsInit, Ends
<1> QED
  BY <1>2, <1>3 DEF HandshakePending, Ends

\* Opening, ending, dying and starting again leave the frames alone.
LEMMA Quiet ==
    ASSUME First = {"consumer"}, QInv, [Next]_vars, ~Reused',
           \/ \E p \in Ends : Open(p) \/ Destroy(p) \/ Kill(p) \/ Restart(p)
           \/ UNCHANGED vars
    PROVE  /\ UNCHANGED <<QueueLength, Reading, seen, fetched, pushed, currentBufferId>>
           /\ Ahead = 0 \/ UNCHANGED buffers
<1>0. ~Reused
  BY DownStep DEF QInv
<1>1. FirstLives'
  BY FirstLivesStep
<1> USE <1>0
<1>2. HandshakePending <=>
        /\ compatible /\ ~Unanswered
        /\ pc["consumer"] = "waitFull" \/ "handshake" \in casualties
  BY PendingIs
<1>3. CASE UNCHANGED vars
  BY ONLY <1>3
  DEF vars, shared, counters, fate, QueueLength, HandshakePending, Unanswered, Reading, Ends
<1>4. ASSUME NEW p \in Ends, Restart(p)
      PROVE  /\ UNCHANGED <<QueueLength, Reading, seen, fetched, pushed, currentBufferId, buffers>>
  <2>1. casualties = {} /\ p = "producer" /\ Unjoined
    BY <1>4, NotReused DEF Restart, QInv, FirstLives, Unjoined, Ends
  <2> QED
    <3>1. UNCHANGED <<fullLeft, HandshakePending>>
      BY <1>4, <2>1
      DEF Restart, QInv, FInv, IInv, Types, Goto, Ends, shared, fate, HandshakePending, Unanswered
    <3> HIDE DEF HandshakePending
    <3> QED
      BY <1>4, <2>1, <3>1
      DEF Restart, QInv, FInv, IInv, Types, Beginning, Goto, Ends, shared, QueueLength, Reading
<1>5. ASSUME NEW p \in Ends, Destroy(p)
      PROVE  /\ UNCHANGED <<QueueLength, Reading, seen, fetched, pushed, currentBufferId, buffers>>
  <2>1. UNCHANGED <<fullLeft, HandshakePending>>
    BY <1>5 DEF Destroy, QInv, FInv, IInv, Types, Goto, Ends, fate, HandshakePending, Unanswered
  <2> HIDE DEF HandshakePending
  <2> QED
    BY <1>5, <2>1 DEF Destroy, QueueLength, Reading, counters
<1>6. ASSUME NEW p \in Ends, Kill(p)
      PROVE  /\ UNCHANGED <<QueueLength, Reading, seen, fetched, pushed, currentBufferId, buffers>>
  <2>1. Unanswered' <=> Unanswered
    BY <1>6 DEF Kill, QInv, FInv, IInv, Types, Ownership, OwnsInit, OwnsRest, Attached, Goto, Ends,
      Unanswered
  <2>2. fullLeft' = fullLeft /\ (HandshakePending' <=> HandshakePending)
    BY <1>6, <2>1
    DEF Kill, QInv, FInv, IInv, Types, Remains, Ownership, OwnsInit, FirstLives, Goto, Ends,
      HandshakePending
  <2> HIDE DEF HandshakePending
  <2> QED
    BY <1>6, <2>2 DEF Kill, QueueLength, Reading, counters
<1>7. HandshakePending' <=>
        /\ compatible' /\ ~Unanswered'
        /\ pc'["consumer"] = "waitFull" \/ "handshake" \in casualties'
  BY PendingNext
<1>8. "handshake" \in casualties => pc["consumer"] = "killed"
  BY DEF QInv, FInv, IInv, Remains, FirstLives
<1>9. ASSUME NEW p \in Ends, Open(p)
      PROVE  /\ UNCHANGED <<QueueLength, Reading, seen, fetched, pushed, currentBufferId>>
             /\ Ahead = 0 \/ UNCHANGED buffers
  <2> USE DEF QInv, FInv, IInv, Types, Goto, Wait, Post, Ends, counters, fate, Reading,
      QueueLength
  <2> HIDE DEF HandshakePending
  <2>1. CASE CreateInit(p)
    <3>1. p = "consumer"
      BY <1>1, <2>1 DEF CreateInit, FirstLives
    <3> QED
      BY <1>2, <1>7, <1>8, <2>1, <3>1 DEF CreateInit
  <2>2. CASE FindInit(p)
    BY <2>2 DEF FindInit, shared, HandshakePending, Unanswered
  <2>3. CASE OpenInit(p)
    BY <2>3 DEF OpenInit, shared, HandshakePending, Unanswered
  <2>4. CASE CreateResources(p)
    <3>1. p = "consumer" /\ ~Unanswered
      BY <2>4 DEF CreateResources, FirstLives, Ownership, OwnsInit
    <3>2. QueueLength = 0 /\ Reading = 0 /\ Ahead = 0
      BY <2>4, <3>1 DEF CreateResources, FirstLives, Beginning, Ahead
    <3>3. fullLeft = 0
      BY <1>2, <1>8, <2>4, <3>1, <3>2 DEF CreateResources
    <3> QED
      BY <1>7, <2>4, <3>1, <3>2, <3>3 DEF CreateResources
  <2>5. CASE CreateConflict(p)
    <3>1. p = "consumer" /\ pc'["consumer"] = "failed"
      BY <2>5 DEF CreateConflict, FirstLives, Ownership, OwnsInit
    <3> QED
      BY <1>1, <3>1 DEF FirstLives
  <2>6. CASE OwnerAttached(p)
    <3>1. p = "consumer" /\ pc["consumer"] = "waitFull" /\ ~Unanswered /\ compatible
      <4>1. p = "consumer" /\ pc["consumer"] = "waitFull"
        BY <2>6 DEF OwnerAttached, FirstLives, Ownership, OwnsInit
      <4> QED
        BY <2>6, <4>1, JoinedWhenPosted DEF OwnerAttached
    <3> QED
      BY <1>2, <1>7, <1>8, <2>6, <3>1 DEF OwnerAttached
  <2>7. CASE AwaitInit(p)
    BY <1>2, <1>7, <2>7 DEF AwaitInit, Unanswered
  <2>8. CASE Attach(p)
    <3>1. p = "producer"
      BY <2>8 DEF Attach, FirstLives
    <3>2. Unanswered /\ ~Unanswered' /\ fullLeft' = fullLeft + 1 /\ compatible
          /\ compatible'
      BY <2>8, <3>1 DEF Attach, Valid, Announced, Unanswered
    <3>3. pc["consumer"] = "waitFull" \/ "handshake" \in casualties
      BY <2>8, <3>1, <3>2 DEF Attach, Announced
    <3>4. QueueLength' = QueueLength
      BY <1>2, <1>7, <2>8, <3>1, <3>2, <3>3 DEF Attach
    <3> QED
      BY <2>8, <3>4 DEF Attach
  <2>9. CASE AttachMismatch(p)
    <3>1. ~compatible
      <4>1. p = "producer"
        BY <2>9 DEF AttachMismatch, FirstLives
      <4>2. pc["consumer"] = "waitFull" \/ "handshake" \in casualties
        BY <2>9, <4>1 DEF AttachMismatch, Announced, Unanswered
      <4> QED
        BY <2>9, <4>2 DEF AttachMismatch, Valid, Ownership, OwnsInit, OwnsRest, Remains
    <3> QED
      BY <1>2, <1>7, <2>9, <3>1 DEF AttachMismatch, shared
  <2> QED
    BY <1>9, <2>1, <2>2, <2>3, <2>4, <2>5, <2>6, <2>7, <2>8, <2>9 DEF Open
<1> QED
  BY <1>3, <1>4, <1>5, <1>6, <1>9

\* The consumer reads where the code reads.
LEMMA ReadsStep ==
    ASSUME First = {"consumer"}, QInv, [Next]_vars
    PROVE  ReadsWhenBusy'
<1> SUFFICES ASSUME ~Reused' PROVE ReadsWhenBusy'
  BY DEF ReadsWhenBusy
<1>0. ~Reused /\ FirstLives'
  BY DownStep, FirstLivesStep DEF QInv
<1>1. CASE \/ \E p \in Ends : Open(p) \/ Destroy(p) \/ Kill(p) \/ Restart(p)
           \/ UNCHANGED vars
  <2>1. Reading' = Reading
    BY <1>1, Quiet
  <2>2. pc'["consumer"] # "killed" =>
          /\ pc["consumer"] # "killed"
          /\ pc'["consumer"] = "busy" <=> pc["consumer"] = "busy"
    <3>1. ASSUME NEW p \in Ends, Restart(p)
          PROVE  p = "producer"
      BY <3>1, <1>0, NotReused DEF Restart, QInv, FirstLives, Ends
    <3> QED
      BY <1>1, <3>1
      DEF QInv, FInv, IInv, Types, Ends, Goto, Open, CreateInit, FindInit, OpenInit,
        CreateResources, CreateConflict, OwnerAttached, AwaitInit, Attach, AttachMismatch,
        Destroy, Kill, Restart, vars
  <2> QED
    BY <1>0, <2>1, <2>2 DEF QInv, ReadsWhenBusy
<1>2. CASE BeginPush \/ EndPush
  <2>1. Reading' = Reading /\ pc'["consumer"] = pc["consumer"]
    BY <1>2 DEF BeginPush, EndPush, QInv, FInv, IInv, Types, Reading, Goto, Ends, counters
  <2> QED
    BY <1>0, <2>1 DEF QInv, ReadsWhenBusy
<1>3. CASE BeginFetch
  BY <1>0, <1>3, ReadingIs
  DEF BeginFetch, QInv, FInv, IInv, Types, ReadsWhenBusy, Reading, Goto, Ends
<1>4. CASE EndFetch
  <2>1. seen' = fetched
    <3>1. Reading = 1 /\ Ahead >= 1
      BY <1>0, <1>4, ReadingIs DEF EndFetch, QInv, ReadsWhenBusy, RingInOrder, Ahead
    <3>2. buffers[At(Read, 0)] = seen + 0 + 1
      BY <1>0, <3>1, ReadingIs DEF QInv, RingInOrder
    <3>3. Read \in Slots /\ seen \in Int /\ fetched = seen + 1
      BY <3>1, ReadingIs DEF QInv, FInv, IInv, Types, Ends, Read, Torn
    <3>4. At(Read, 0) = Read
      BY <3>3, AtNext, ProcessLinkAssumption
    <3> QED
      BY <1>4, <3>2, <3>3, <3>4 DEF EndFetch, Read
  <2> QED
    BY <1>0, <1>4, <2>1
    DEF EndFetch, QInv, FInv, IInv, Types, ReadsWhenBusy, Reading, Goto, Ends
<1> QED
  BY <1>1, <1>2, <1>3, <1>4, Steps

\* The ring comes into use when the producer attaches.
LEMMA BeginningStep ==
    ASSUME First = {"consumer"}, QInv, [Next]_vars
    PROVE  Beginning'
<1> SUFFICES ASSUME ~Reused', Unjoined' PROVE Beginning'
  BY DEF Beginning
<1>0. ~Reused
  BY DownStep DEF QInv
<1>1. CASE \/ \E p \in Ends : Open(p) \/ Destroy(p) \/ Kill(p) \/ Restart(p)
           \/ UNCHANGED vars
  <2>1. Unjoined
    <3>1. ASSUME NEW p \in Ends, Restart(p)
          PROVE  Unjoined
      BY <3>1, <1>0, NotReused DEF Restart, QInv, FirstLives, Unjoined, Ends
    <3>2. ASSUME NEW p \in Ends, Kill(p)
          PROVE  Unjoined
      BY <3>2, <1>0
      DEF Kill, QInv, FInv, IInv, Types, Ownership, OwnsInit, FirstLives, Unjoined, Goto, Ends
    <3> QED
      BY <1>1, <3>1, <3>2
      DEF QInv, FInv, IInv, Types, Unjoined, Ends, Goto, fate, Open, CreateInit, FindInit,
        OpenInit, CreateResources, CreateConflict, OwnerAttached, AwaitInit, Attach,
        AttachMismatch, Destroy, vars
  <2> QED
    BY <1>0, <1>1, <2>1, Quiet DEF QInv, Beginning
<1>2. CASE BeginPush \/ EndPush
  <2>1. pc'["producer"] \in {"busy", "loop"}
    BY <1>2 DEF BeginPush, EndPush, QInv, FInv, IInv, Types, Goto, Ends
  <2> QED
    BY <2>1 DEF Unjoined
<1>3. CASE BeginFetch \/ EndFetch
  <2>1. Unjoined
    BY <1>3 DEF BeginFetch, EndFetch, QInv, FInv, IInv, Types, Unjoined, Goto, Ends, fate
  <2> QED
    BY <1>0, <1>3, <2>1 DEF BeginFetch, EndFetch, QInv, FirstLives
<1> QED
  BY <1>1, <1>2, <1>3, Steps

\* The handshake is over, or the owner waits, as long as push and fetch run.
LEMMA PendingStays ==
    ASSUME First = {"consumer"}, QInv, [Next]_vars, ~Reused',
           BeginPush \/ EndPush \/ BeginFetch \/ EndFetch
    PROVE  HandshakePending' <=> HandshakePending
<1>1. ~Reused
  BY DownStep DEF QInv
<1> QED
  BY <1>1, PendingIs, PendingNext
  DEF BeginPush, EndPush, BeginFetch, EndFetch, QInv, FInv, IInv, Types, Goto, Ends, fate,
      Unanswered

\* The ring as the queue it stands for: its places and what is in them.
LEMMA RingFacts ==
    ASSUME QInv, ~Reused
    PROVE  /\ Ahead \in 0..QueueSize /\ QueueLength \in Nat /\ Reading \in 0..1
           /\ Ahead = QueueLength + Reading /\ Read \in Slots /\ seen \in Int
           /\ fetched = seen + Reading
           /\ \A k \in 0..(Ahead - 1) :
                At(Read, k) \in Slots /\ buffers[At(Read, k)] = seen + k + 1
           /\ At(Read, 0) = Read
           /\ \A k \in 0..(QueueSize - 1) : At(At(Read, 1), k) = At(Read, k + 1)
<1>1. QueueLength \in Int /\ Reading \in 0..1 /\ fetched = seen + Reading
  BY ReadingIs DEF QInv
<1>2. QueueLength >= 0 /\ Ahead <= QueueSize
  BY DEF QInv, RingInOrder
<1>3. Read \in Slots /\ seen \in Int
  BY DEF QInv, FInv, IInv, Types, Ends, Read, Torn
<1>4. Ahead \in 0..QueueSize
  BY <1>1, <1>2, ProcessLinkAssumption DEF Ahead
<1>5. \A k \in 0..(Ahead - 1) : At(Read, k) \in Slots
  BY <1>3, <1>4, AtIs, ProcessLinkAssumption
<1>6. 0 \in 0..(QueueSize - 1)
  BY ProcessLinkAssumption
<1> QED
  BY <1>1, <1>2, <1>3, <1>4, <1>5, <1>6, AtNext DEF Ahead, QInv, RingInOrder

\* A producer that takes an empty buffer writes behind the frames ahead.
LEMMA WritesAhead ==
    ASSUME QInv, ~Reused, Attached("producer"), Ahead < QueueSize, NEW k \in 0..(Ahead - 1)
    PROVE  At(Read, k) # currentBufferId["producer"]
<1>1. Ahead \in 0..(QueueSize - 1) /\ k \in 0..(QueueSize - 1) /\ k # Ahead
      /\ Read \in Slots
  BY RingFacts, ProcessLinkAssumption
<1>2. currentBufferId["producer"] = At(Read, Ahead)
  BY DEF QInv, RingInOrder
<1> QED
  BY <1>1, <1>2, AtApart

\* What a push does to the ring.
LEMMA PushInRing ==
    ASSUME First = {"consumer"}, QInv, [Next]_vars, ~Reused', EndPush
    PROVE  /\ QueueLength' = QueueLength + 1 /\ UNCHANGED <<Reading, Read, seen>>
           /\ Ahead' = Ahead + 1 /\ Ahead < QueueSize
           /\ \A k \in 0..(Ahead - 1) : buffers'[At(Read, k)] = buffers[At(Read, k)]
           /\ buffers'[At(Read, Ahead)] = pushed + 1 /\ pushed = seen + Ahead
           /\ currentBufferId'["producer"] = At(Read, Ahead + 1)
<1>0. ~Reused /\ pc["producer"] = "busy"
  BY DownStep DEF QInv, EndPush
<1>1. /\ currentBufferId["producer"] = At(Read, Ahead) /\ pushed = seen + Ahead
      /\ emptyLeft + Ahead + 1 <= QueueSize
  BY <1>0 DEF QInv, RingInOrder, Attached, Busy
<1>2. Ahead \in Nat /\ emptyLeft \in Nat /\ Ahead < QueueSize /\ Read \in Slots
  BY <1>0, <1>1, RingFacts, ProcessLinkAssumption DEF QInv, FInv, IInv, Types
<1>3. QueueLength' = QueueLength + 1 /\ UNCHANGED <<Reading, Read, seen>>
  <2>1. UNCHANGED <<fetched, seen>> /\ fullLeft' = fullLeft + 1
    BY DEF EndPush, Post
  <2>2. HandshakePending' <=> HandshakePending
    BY PendingStays
  <2>3. QueueLength' = QueueLength + 1
    BY <2>1, <2>2 DEF QueueLength, QInv, FInv, IInv, Types
  <2>4. currentBufferId'["consumer"] = currentBufferId["consumer"]
    BY DEF EndPush, Advance, QInv, FInv, IInv, Types, Ends
  <2> QED
    BY <2>1, <2>3, <2>4 DEF Reading, Read
<1>4. Ahead' = Ahead + 1
  BY <1>0, <1>3, RingFacts DEF Ahead
<1>5. \A k \in 0..(Ahead - 1) : At(Read, k) # currentBufferId["producer"] /\ At(Read, k) \in Slots
  BY <1>0, <1>2, WritesAhead, RingFacts DEF Attached
<1>6. At(Read, Ahead) \in Slots
  BY <1>2, AtIs, ProcessLinkAssumption
<1>7. buffers' = [buffers EXCEPT ![currentBufferId["producer"]] = pushed + 1]
  BY DEF EndPush
<1>8. buffers'[At(Read, Ahead)] = pushed + 1
  BY <1>1, <1>6, <1>7 DEF QInv, FInv, IInv, Types
<1>9. \A k \in 0..(Ahead - 1) : buffers'[At(Read, k)] = buffers[At(Read, k)]
  BY <1>5, <1>7 DEF QInv, FInv, IInv, Types
<1>10. currentBufferId'["producer"] = At(Read, Ahead + 1)
  <2>1. currentBufferId'["producer"] = At(currentBufferId["producer"], 1)
    BY DEF EndPush, Advance, At, QInv, FInv, IInv, Types, Ends
  <2>2. Ahead \in 0..(QueueSize - 1)
    BY <1>2, ProcessLinkAssumption
  <2> QED
    BY <1>1, <1>2, <2>1, <2>2, AtNext
<1> QED
  BY <1>1, <1>2, <1>3, <1>4, <1>8, <1>9, <1>10

\* What the end of a fetch does to the ring.
LEMMA FetchInRing ==
    ASSUME First = {"consumer"}, QInv, [Next]_vars, ~Reused', EndFetch
    PROVE  /\ Reading = 1 /\ Reading' = 0 /\ seen' = seen + 1 /\ seen' = buffers[Read]
           /\ UNCHANGED <<QueueLength, buffers, pushed>> /\ Ahead' = Ahead - 1
           /\ Read' = At(Read, 1)
           /\ currentBufferId'["producer"] = currentBufferId["producer"]
<1>0. ~Reused
  BY DownStep DEF QInv
<1>1. Reading = 1
  BY <1>0 DEF EndFetch, QInv, ReadsWhenBusy
<1>2. buffers[Read] = seen + 1
  <2>1. 0 \in 0..(Ahead - 1) /\ seen \in Int
    BY <1>0, <1>1, RingFacts
  <2>2. buffers[At(Read, 0)] = seen + 0 + 1 /\ At(Read, 0) = Read
    BY <1>0, <2>1, RingFacts
  <2> QED
    BY <2>1, <2>2
<1>3. seen' = seen + 1 /\ seen' = buffers[Read] /\ fetched' = fetched
      /\ UNCHANGED <<buffers, pushed>>
  BY <1>2 DEF EndFetch, Read
<1>4. Reading' = 0
  BY <1>0, <1>1, <1>3, RingFacts DEF Reading
<1>5. QueueLength' = QueueLength
  BY PendingStays DEF QueueLength, EndFetch
<1>6. Ahead' = Ahead - 1
  BY <1>0, <1>1, <1>4, <1>5, RingFacts DEF Ahead
<1>7. Read' = At(Read, 1) /\ currentBufferId'["producer"] = currentBufferId["producer"]
  BY DEF EndFetch, Advance, Read, At, QInv, FInv, IInv, Types, Ends
<1> QED
  BY <1>1, <1>3, <1>4, <1>5, <1>6, <1>7

\* What its beginning does.
LEMMA TakeFromRing ==
    ASSUME First = {"consumer"}, QInv, [Next]_vars, ~Reused', BeginFetch
    PROVE  /\ Reading = 0 /\ Reading' = 1 /\ QueueLength' = QueueLength - 1 /\ QueueLength' >= 0
           /\ UNCHANGED <<Ahead, buffers, pushed, seen, currentBufferId>>
<1>0. ~Reused /\ pc["consumer"] = "loop"
  BY DownStep DEF QInv, BeginFetch
<1>1. Reading = 0 /\ QueueLength \in Nat /\ seen \in Int /\ fetched = seen
  BY <1>0, RingFacts DEF QInv, ReadsWhenBusy
<1>2. UNCHANGED <<buffers, pushed, seen, currentBufferId>> /\ fetched' = fetched + 1
  BY DEF BeginFetch
<1>3. Reading' = 1
  BY <1>1, <1>2 DEF Reading
<1>4. ~HandshakePending /\ ~HandshakePending'
  <2>1. "handshake" \notin casualties
    BY <1>0 DEF QInv, FInv, IInv, Remains, FirstLives
  <2> QED
    BY <1>0, <2>1, PendingIs, PendingStays
<1>5. QueueLength' = QueueLength - 1 /\ QueueLength' >= 0
  BY <1>4 DEF QueueLength, BeginFetch, Wait, QInv, FInv, IInv, Types
<1>6. Ahead' = Ahead
  BY <1>1, <1>3, <1>5 DEF Ahead
<1> QED
  BY <1>1, <1>2, <1>3, <1>5, <1>6

\* Every step keeps the ring in order.
LEMMA RingStep ==
    ASSUME First = {"consumer"}, QInv, [Next]_vars
    PROVE  RingInOrder'
<1> SUFFICES ASSUME ~Reused' PROVE RingInOrder'
  BY DEF RingInOrder
<1>0. ~Reused
  BY DownStep DEF QInv
<1>1. CASE \/ \E p \in Ends : Open(p) \/ Destroy(p) \/ Kill(p) \/ Restart(p)
           \/ UNCHANGED vars
  <2>1. UNCHANGED <<QueueLength, Reading, Read, Ahead, seen, pushed, currentBufferId>>
    BY <1>1, Quiet DEF Ahead, Read
  <2>2. \A k \in 0..(Ahead - 1) : buffers'[At(Read, k)] = seen + k + 1
    BY <1>0, <1>1, Quiet, RingFacts
  <2>3. Attached("producer")' =>
          /\ currentBufferId["producer"] = At(Read, Ahead)
          /\ pushed = seen + Ahead
          /\ emptyLeft' + Ahead + Busy("producer")' <= QueueSize
    <3> SUFFICES ASSUME Attached("producer")'
                 PROVE  /\ currentBufferId["producer"] = At(Read, Ahead)
                        /\ pushed = seen + Ahead
                        /\ emptyLeft' + Ahead + Busy("producer")' <= QueueSize
      OBVIOUS
    <3>1. CASE Attached("producer")
      <4>1. UNCHANGED <<emptyLeft, Busy("producer")>>
        <5>1. ASSUME NEW p \in Ends, CreateResources(p)
              PROVE  FALSE
          BY <1>0, <3>1, <5>1
          DEF CreateResources, QInv, FirstLives, Unjoined, Attached, Ownership, FInv, IInv,
            OwnsInit, Ends
        <5> QED
          BY <1>1, <3>1, <5>1
          DEF QInv, FInv, IInv, Types, Attached, Busy, Ends, Goto, Open, CreateInit,
            FindInit, OpenInit,
              CreateConflict, OwnerAttached, AwaitInit, Attach, AttachMismatch, Destroy, Kill,
              Restart, vars, shared
      <4> QED
        BY <1>0, <3>1, <4>1 DEF QInv, RingInOrder
    <3>2. CASE ~Attached("producer")
      <4>1. Attach("producer")
        <5>1. pc["producer"] \notin {"create", "waitFull"}
          BY <1>0 DEF QInv, FInv, IInv, Ownership, OwnsInit, FirstLives, Ends
        <5>2. ASSUME NEW p \in Ends, Open(p), p # "producer" \/ ~Attach(p)
              PROVE  ~Attached("producer")'
          BY <3>2, <5>1, <5>2
          DEF QInv, FInv, IInv, Types, Attached, Ends, Goto, Open, CreateInit, FindInit,
            OpenInit,
              CreateResources, CreateConflict, OwnerAttached, AwaitInit, Attach, AttachMismatch
        <5>3. ASSUME NEW p \in Ends, Destroy(p) \/ Kill(p) \/ Restart(p)
              PROVE  ~Attached("producer")'
          BY <3>2, <5>3 DEF QInv, FInv, IInv, Types, Attached, Ends, Goto, Destroy, Kill,
            Restart
        <5> QED
          BY <1>1, <3>2, <5>2, <5>3 DEF vars, Attached
      <4> QED
        BY <1>0, <4>1, RingFacts, ProcessLinkAssumption
        DEF Attach, QInv, FInv, IInv, Types, Announced, Unanswered, Beginning, Unjoined, Busy, Goto,
          Ends, Wait, Ahead, Reading, Read
    <3> QED
      BY <3>1, <3>2
  <2> QED
    BY <1>0, <2>1, <2>2, <2>3, RingFacts DEF RingInOrder, At
<1>2. CASE BeginPush
  <2>1. /\ UNCHANGED <<seen, fetched, pushed, currentBufferId>> /\ fullLeft' = fullLeft
        /\ emptyLeft > 0 /\ emptyLeft' = emptyLeft - 1
        /\ buffers' = [buffers EXCEPT ![currentBufferId["producer"]] = Torn]
        /\ Attached("producer") /\ Busy("producer") = 0 /\ Busy("producer")' = 1
    BY <1>2 DEF BeginPush, Wait, counters, Attached, Busy, Goto, QInv, FInv, IInv, Types, Ends
  <2>2. UNCHANGED <<QueueLength, Reading, Read, Ahead>>
    BY <1>2, <2>1, PendingStays DEF QueueLength, Reading, Read, Ahead
  <2>3. Ahead < QueueSize /\ emptyLeft + Ahead <= QueueSize /\ emptyLeft \in Nat
        /\ Ahead \in Nat
    BY <1>0, <2>1, RingFacts, ProcessLinkAssumption DEF QInv, RingInOrder, FInv, IInv, Types
  <2>4. \A k \in 0..(Ahead - 1) : buffers'[At(Read, k)] = seen + k + 1
    BY <1>0, <2>1, <2>3, WritesAhead, RingFacts DEF QInv, FInv, IInv, Types
  <2>5. currentBufferId["producer"] = At(Read, Ahead) /\ pushed = seen + Ahead
    BY <1>0, <2>1 DEF QInv, RingInOrder
  <2>6. emptyLeft' + Ahead + Busy("producer")' <= QueueSize
    BY <2>1, <2>3, ProcessLinkAssumption
  <2> QED
    BY <1>0, <2>1, <2>2, <2>4, <2>5, <2>6, RingFacts DEF RingInOrder, At
<1>3. CASE EndPush
  <2>1. /\ QueueLength' = QueueLength + 1 /\ UNCHANGED <<Reading, Read, seen>>
        /\ Ahead' = Ahead + 1 /\ Ahead < QueueSize
        /\ \A k \in 0..(Ahead - 1) : buffers'[At(Read, k)] = buffers[At(Read, k)]
        /\ buffers'[At(Read, Ahead)] = pushed + 1 /\ pushed = seen + Ahead
        /\ currentBufferId'["producer"] = At(Read, Ahead + 1)
    BY <1>3, PushInRing
  <2>2. Ahead \in Nat /\ seen \in Int /\ QueueLength \in Nat
    BY <1>0, RingFacts, ProcessLinkAssumption
  <2>3. ASSUME NEW k \in 0..(Ahead' - 1)
        PROVE  buffers'[At(Read, k)] = seen + k + 1
    <3>1. CASE k = Ahead
      BY <2>1, <2>2, <3>1
    <3>2. CASE k # Ahead
      <4>1. k \in 0..(Ahead - 1)
        BY <2>1, <2>2, <3>2
      <4> QED
        BY <1>0, <2>1, <4>1, RingFacts
    <3> QED
      BY <3>1, <3>2
  <2>4. pushed' = seen + Ahead'
    BY <1>3, <2>1, <2>2 DEF EndPush
  <2>5. emptyLeft' + Ahead' + Busy("producer")' <= QueueSize
    <3>1. emptyLeft' = emptyLeft /\ Busy("producer") = 1 /\ Busy("producer")' = 0
          /\ Attached("producer")
      BY <1>3 DEF EndPush, Busy, Attached, Goto, QInv, FInv, IInv, Types, Ends
    <3>2. emptyLeft + Ahead + 1 <= QueueSize /\ emptyLeft \in Nat
      BY <1>0, <3>1 DEF QInv, RingInOrder, FInv, IInv, Types
    <3> QED
      BY <2>1, <2>2, <3>1, <3>2, ProcessLinkAssumption
  <2>6. QueueLength' >= 0 /\ Ahead' <= QueueSize
    BY <2>1, <2>2, ProcessLinkAssumption
  <2> QED
    BY <2>1, <2>3, <2>4, <2>5, <2>6 DEF RingInOrder, At
<1>4. CASE BeginFetch
  <2>1. /\ QueueLength' >= 0
        /\ UNCHANGED <<Ahead, buffers, pushed, seen, currentBufferId>>
    BY <1>4, TakeFromRing
  <2>2. UNCHANGED <<Read, emptyLeft, Busy("producer"), Attached("producer")>>
    BY <1>4 DEF BeginFetch, Read, Busy, Attached, Goto, QInv, FInv, IInv, Types, Ends
  <2> QED
    BY <1>0, <2>1, <2>2 DEF QInv, RingInOrder, At
<1>5. CASE EndFetch
  <2>1. /\ Reading = 1 /\ seen' = seen + 1
        /\ UNCHANGED <<QueueLength, buffers, pushed>> /\ Ahead' = Ahead - 1
        /\ Read' = At(Read, 1) /\ currentBufferId'["producer"] = currentBufferId["producer"]
    BY <1>5, FetchInRing
  <2>2. /\ Ahead \in 1..QueueSize /\ seen \in Int /\ QueueLength \in Nat
        /\ \A k \in 0..(QueueSize - 1) : At(At(Read, 1), k) = At(Read, k + 1)
    BY <1>0, <2>1, RingFacts
  <2>3. ASSUME NEW k \in 0..(Ahead' - 1)
        PROVE  buffers'[At(Read', k)] = seen' + k + 1
    <3>1. k + 1 \in 0..(Ahead - 1) /\ k \in 0..(QueueSize - 1)
      BY <2>1, <2>2, ProcessLinkAssumption
    <3>2. buffers[At(Read, k + 1)] = seen + (k + 1) + 1
      BY <1>0, <3>1, RingFacts
    <3> QED
      BY <2>1, <2>2, <3>1, <3>2
  <2>4. Attached("producer")' =>
          /\ currentBufferId'["producer"] = At(Read', Ahead')
          /\ pushed' = seen' + Ahead'
          /\ emptyLeft' + Ahead' + Busy("producer")' <= QueueSize
    <3> SUFFICES ASSUME Attached("producer")'
                 PROVE  /\ currentBufferId'["producer"] = At(Read', Ahead')
                        /\ pushed' = seen' + Ahead'
                        /\ emptyLeft' + Ahead' + Busy("producer")' <= QueueSize
      OBVIOUS
    <3>1. emptyLeft' = emptyLeft + 1 /\ Busy("producer")' = Busy("producer")
          /\ Attached("producer")
      BY <1>5 DEF EndFetch, Post, Busy, Attached, Goto, QInv, FInv, IInv, Types, Ends
    <3>2. /\ currentBufferId["producer"] = At(Read, Ahead) /\ pushed = seen + Ahead
          /\ emptyLeft + Ahead + Busy("producer") <= QueueSize /\ emptyLeft \in Nat
      BY <1>0, <3>1 DEF QInv, RingInOrder, FInv, IInv, Types
    <3>3. At(At(Read, 1), Ahead - 1) = At(Read, Ahead)
      <4>1. Ahead - 1 \in 0..(QueueSize - 1) /\ (Ahead - 1) + 1 = Ahead
        BY <2>2, ProcessLinkAssumption
      <4> QED
        BY <2>2, <4>1
    <3>4. Busy("producer") \in 0..1
      BY DEF Busy
    <3> QED
      BY <2>1, <2>2, <3>1, <3>2, <3>3, <3>4, ProcessLinkAssumption
  <2>5. QueueLength' >= 0 /\ Ahead' <= QueueSize
    BY <2>1, <2>2, ProcessLinkAssumption
  <2> QED
    BY <2>3, <2>4, <2>5 DEF RingInOrder, At
<1> QED
  BY <1>1, <1>2, <1>3, <1>4, <1>5, Steps

\* The queue is empty and nobody has been killed.
LEMMA InitQInv == Init => QInv
<1> SUFFICES ASSUME Init PROVE QInv
  OBVIOUS
<1>1. FInv
  BY InitFInv
<1>2. Down = 0 /\ kills = 0 /\ casualties = {}
  BY DEF Init, Down, Ends
<1>3. QueueLength = 0 /\ Reading = 0 /\ Ahead = 0
  <2>1. ~HandshakePending
    BY DEF Init, HandshakePending
  <2>2. fullLeft = 0 /\ fetched = 0 /\ seen = 0
    BY DEF Init
  <2>3. QueueLength = 0
    <3>1. QueueLength = fullLeft - 0
      BY <2>1 DEF QueueLength
    <3> QED
      BY <2>2, <3>1
  <2>4. Reading = 0
    BY <2>2 DEF Reading
  <2> QED
    BY <2>3, <2>4 DEF Ahead
<1> QED
  BY <1>1, <1>2, <1>3, ProcessLinkAssumption
  DEF Init, QInv, Counted, FirstLives, Unjoined, ReadsWhenBusy, Beginning, RingInOrder,
    Attached, Ends

\* What the refinement needs holds throughout, when the consumer opens the link
\* first.
THEOREM QueueInvariant ==
    ASSUME First = {"consumer"}
    PROVE  Spec => []QInv
<1>1. QInv /\ [Next]_vars /\ FInv' => QInv'
  BY DownStep, FirstLivesStep, ReadsStep, BeginningStep, RingStep DEF QInv
<1> QED
  BY <1>1, InitQInv, FramesInvariant, PTL DEF Spec

\* The frame the consumer refers to.
HeldFrame == IF Reading = 1 THEN buffers[currentBufferId["consumer"]] ELSE seen

\* The queue holds the frames after the one the consumer refers to, in order.
QueueInOrder ==
    /\ Queue = [k \in 1..QueueLength |-> HeldFrame + k]
    /\ HeldFrame = seen + Reading

\* The frames of the queue by their places in the ring.
LEMMA QueueIs ==
    ASSUME QInv, ~Reused
    PROVE  QueueInOrder
<1>1. ASSUME NEW k \in 1..QueueLength
      PROVE  buffers[(currentBufferId["consumer"] + Reading + k - 1) % QueueSize] = seen + Reading + k
  <2>1. /\ Ahead = QueueLength + Reading /\ Reading \in Nat /\ QueueLength \in Nat
        /\ seen \in Int /\ Read \in Int
    BY RingFacts DEF Slots
  <2> DEFINE j == Reading + k - 1
  <2>2. j \in 0..(Ahead - 1)
    BY <2>1
  <2>3. buffers[At(Read, j)] = seen + j + 1
    BY <2>2, RingFacts
  <2>4. currentBufferId["consumer"] + Reading + k - 1 = Read + j
    BY <2>1 DEF Read
  <2>5. seen + j + 1 = seen + Reading + k
    BY <2>1
  <2> QED
    BY <2>3, <2>4, <2>5 DEF At
<1>2. Queue = [k \in 1..QueueLength |-> seen + Reading + k]
  BY <1>1 DEF Queue
<1>3. HeldFrame = seen + Reading
  <2>1. CASE Reading = 1
    <3>1. 0 \in 0..(Ahead - 1) /\ seen \in Int
      BY <2>1, RingFacts
    <3>2. buffers[At(Read, 0)] = seen + 0 + 1 /\ At(Read, 0) = Read
      BY <3>1, RingFacts
    <3> QED
      BY <2>1, <3>1, <3>2 DEF HeldFrame, Read
  <2>2. CASE Reading = 0
    BY <2>2, RingFacts DEF HeldFrame
  <2> QED
    BY <2>1, <2>2, RingFacts
<1> QED
  BY <1>2, <1>3 DEF QueueInOrder

\* The same after a step.
LEMMA QueueIsNext == QInv' /\ ~Reused' => QueueInOrder'
<1>1. QInv /\ ~Reused => QueueInOrder
  BY QueueIs
<1> QED
  BY <1>1, PTL

\* A queue of no frames is empty, and one of some is not.
LEMMA QueueEmpty ==
    ASSUME QInv, ~Reused
    PROVE  /\ Queue \in Seq(Int) /\ Len(Queue) = QueueLength
           /\ QueueLength = 0 => Queue = <<>>
<1>1. Queue = [k \in 1..QueueLength |-> HeldFrame + k] /\ QueueLength \in Nat
      /\ HeldFrame \in Int
  BY QueueIs, RingFacts DEF QueueInOrder
<1>2. Queue \in Seq(Int) /\ Len(Queue) = QueueLength
  BY <1>1
<1> QED
  BY <1>2, EmptySeq

\* The empty ring is the empty queue.
LEMMA InitQueue == Init => BQ!Init
<1> SUFFICES ASSUME Init PROVE BQ!Init
  OBVIOUS
<1>1. QInv /\ ~Reused
  BY InitQInv, ReusedIs DEF Init
<1>2. Unjoined
  BY DEF Init, Unjoined, Ends
<1>3. pushed = 0 /\ fetched = 0 /\ seen = 0 /\ QueueLength = 0
  BY <1>1, <1>2 DEF QInv, Beginning
<1>4. HeldFrame = 0
  BY <1>3 DEF HeldFrame, Reading
<1>5. Queue = <<>>
  BY <1>1, <1>3, QueueEmpty
<1> QED
  BY <1>3, <1>4, <1>5 DEF BQ!Init, HeldFrame

\* Every step is one of the queue or is invisible in it, until an end that had a
\* part is started again.
LEMMA NextQueue ==
    ASSUME First = {"consumer"}, QInv, QInv', [Next]_vars, ~Reused'
    PROVE  [BQ!Next]_(BQ!vars)
<1>0. ~Reused
  BY DownStep DEF QInv
<1>1. /\ Queue = [k \in 1..QueueLength |-> HeldFrame + k] /\ HeldFrame = seen + Reading
      /\ QueueLength \in Nat /\ seen \in Int /\ Reading \in Nat
      /\ Queue \in Seq(Int) /\ Len(Queue) = QueueLength
  BY <1>0, QueueIs, RingFacts, QueueEmpty DEF QueueInOrder
<1>2. Queue' = [k \in 1..QueueLength' |-> HeldFrame' + k] /\ HeldFrame' = seen' + Reading'
  BY QueueIsNext DEF QueueInOrder
<1>3. ASSUME QueueLength' = QueueLength, HeldFrame' = HeldFrame, pushed' = pushed
      PROVE  UNCHANGED BQ!vars
  <2>1. Queue' = Queue
    BY <1>1, <1>2, <1>3
  <2> QED
    BY <1>3, <2>1 DEF BQ!vars, HeldFrame
<1>4. CASE \/ \E p \in Ends : Open(p) \/ Destroy(p) \/ Kill(p) \/ Restart(p)
           \/ UNCHANGED vars
  BY <1>1, <1>2, <1>3, <1>4, Quiet
<1>5. CASE BeginPush
  <2>1. UNCHANGED <<QueueLength, Reading, seen, pushed>>
    BY <1>5, PendingStays DEF BeginPush, counters, QueueLength, Reading
  <2> QED
    BY <1>1, <1>2, <1>3, <2>1
<1>6. CASE EndPush
  <2>1. /\ QueueLength' = QueueLength + 1 /\ UNCHANGED <<Reading, seen>>
        /\ Ahead < QueueSize /\ pushed = seen + Ahead /\ Ahead = QueueLength + Reading
        /\ pushed' = pushed + 1 /\ pushed < NumFrames
    BY <1>0, <1>6, PushInRing, RingFacts DEF EndPush, QInv, FInv, IInv, InRound
  <2>2. Queue' = Append(Queue, pushed + 1)
    <3>1. HeldFrame' = HeldFrame /\ pushed + 1 = HeldFrame + (QueueLength + 1)
      BY <1>1, <1>2, <2>1
    <3>2. Queue' = [k \in 1..(QueueLength + 1) |-> HeldFrame + k]
      BY <1>2, <2>1, <3>1
    <3> QED
      BY <1>1, <3>1, <3>2, AppendProperties
  <2>3. Len(Queue) < QueueSize
    BY <1>1, <2>1, ProcessLinkAssumption
  <2> QED
    BY <1>1, <1>2, <2>1, <2>2, <2>3 DEF BQ!Next, BQ!Push, HeldFrame
<1>7. CASE BeginFetch
  <2>1. /\ Reading = 0 /\ Reading' = 1 /\ QueueLength' = QueueLength - 1
        /\ QueueLength' >= 0
        /\ UNCHANGED <<pushed, seen>>
    BY <1>7, TakeFromRing
  <2>2. Queue # <<>> /\ Head(Queue) = HeldFrame + 1
    BY <1>1, <2>1
  <2>3. HeldFrame' = HeldFrame + 1
    BY <1>1, <1>2, <2>1
  <2>4. Queue' = Tail(Queue)
    BY <1>1, <1>2, <2>1, <2>2, <2>3, HeadTailProperties
  <2> QED
    BY <2>1, <2>2, <2>3, <2>4 DEF BQ!Next, BQ!Fetch, HeldFrame
<1>8. CASE EndFetch
  <2>1. Reading = 1 /\ Reading' = 0 /\ seen' = seen + 1 /\ UNCHANGED <<QueueLength, pushed>>
    BY <1>8, FetchInRing
  <2> QED
    BY <1>1, <1>2, <1>3, <2>1
<1> QED
  BY <1>4, <1>5, <1>6, <1>7, <1>8, Steps

\* For every queue size, any number of frames and however often the two
\* processes are killed and started again: the link is a bounded queue of
\* QueueSize frames, until an end that had a part in it is started again
\* (ProcessLink::push and fetch, openResources, ~ProcessLink).
THEOREM RefinesBoundedQueue ==
    ASSUME First = {"consumer"}
    PROVE  Spec => ImplementsQueue
<1>1. QInv /\ QInv' /\ [Next]_vars => [BQ!Next \/ Reused']_(BQ!vars)
  BY NextQueue
<1> QED
  BY <1>1, InitQueue, QueueInvariant, PTL DEF Spec, ImplementsQueue
================================================================================
