--------------------------- MODULE DemuxerProofs ---------------------------
(***************************************************************************)
(* The safety of Demuxer for any sets of links and connections.            *)
(***************************************************************************)
EXTENDS Demuxer, TLAPS

\* The demuxer thread deals with a connection it has accepted.
CurrentAccepted ==
    demuxer \in {"header", "assign"} =>
        current \in Conns /\ conn[current] = "accepted"

\* Who is between finding a pump and handing it a resource holds the lock.
LockHolders ==
    /\ demuxer = "assign" => stateLock = "demuxer"
    /\ \A l \in Links : input[l] = "allocate" => stateLock = l

\* A pump's LinkBuffer is allocated by its input.
BufferAllocated == \A l \in Links : l \in linkBuffer <=> input[l] = "fetch"

\* A pump in use has been created.
PumpExists ==
    /\ demuxer = "assign" => pump[linkId[current]] # "absent"
    /\ \A l \in Links : input[l] = "allocate" => pump[l] # "absent"

\* What is shown to be inductive.
IInv ==
    /\ TypeOK
    /\ CurrentAccepted
    /\ LockHolders
    /\ BufferAllocated
    /\ PumpExists
    /\ PumpHasOwnLink
    /\ NoLostWakeup

\* All connections are in the backlog, no pump exists.
LEMMA InitIInv == Init => IInv
BY DemuxerAssumption
DEF Init, IInv, TypeOK, CurrentAccepted, LockHolders, BufferAllocated, PumpExists,
    PumpHasOwnLink, NoLostWakeup, PumpLocked, pumps

\* Every step of demuxer, inputs, pumps and main thread keeps the invariant.
LEMMA NextIInv == IInv /\ [Next]_vars => IInv'
<1> SUFFICES ASSUME IInv, [Next]_vars PROVE IInv'
  OBVIOUS
<1> USE DemuxerAssumption
        DEF IInv, TypeOK, CurrentAccepted, LockHolders, BufferAllocated,
            PumpExists, PumpHasOwnLink, NoLostWakeup, PumpLocked, pumps
<1>1. ASSUME NEW c \in Conns, Accept(c)
      PROVE  IInv'
  BY <1>1 DEF Accept
<1>2. CASE RefuseHeader
  BY <1>2 DEF RefuseHeader
<1>3. CASE HeaderEOF
  BY <1>3 DEF HeaderEOF
<1>4. CASE FindPump
  BY <1>4 DEF FindPump, Created
<1>5. CASE AssignLink
  BY <1>5 DEF AssignLink, Emit
<1>6. CASE AssignConflict
  BY <1>6 DEF AssignConflict
<1>7. CASE Cancelled
  BY <1>7 DEF Cancelled
<1>8. ASSUME NEW l \in Links, GetLink(l)
      PROVE  IInv'
  <2>1. /\ demuxer # "assign"
        /\ \A m \in Links : input[m] # "allocate"
        /\ \A m \in Links : input'[m] = "allocate" => m = l
        /\ pump'[l] # "absent"
    BY <1>8 DEF GetLink, Created, None
  <2>2. CASE pump[l] = "absent"
    BY <1>8, <2>1, <2>2 DEF GetLink, Created
  <2>3. CASE pump[l] # "absent"
    BY <1>8, <2>1, <2>3 DEF GetLink, Created
  <2> QED
    BY <2>2, <2>3
<1>9. ASSUME NEW l \in Links, AllocateBuffer(l)
      PROVE  IInv'
  BY <1>9 DEF AllocateBuffer, Emit
<1>10. ASSUME NEW l \in Links, StartTransfer(l)
      PROVE  IInv'
  BY <1>10 DEF StartTransfer, Ready
<1>11. ASSUME NEW l \in Links, WaitResources(l)
      PROVE  IInv'
  BY <1>11 DEF WaitResources, Ready
<1>12. ASSUME NEW l \in Links, TransferEnds(l)
      PROVE  IInv'
  BY <1>12 DEF TransferEnds
<1>13. ASSUME NEW l \in Links, PumpShutDown(l)
      PROVE  IInv'
  BY <1>13 DEF PumpShutDown
<1>14. CASE Cancel
  BY <1>14 DEF Cancel
<1>15. CASE CancelAnswered
  BY <1>15 DEF CancelAnswered
<1>16. CASE CancelWoken
  BY <1>16 DEF CancelWoken
<1>17. CASE DestroyPumps
  BY <1>17 DEF DestroyPumps
<1>18. CASE Destroyed
  BY <1>18 DEF Destroyed
<1>19. CASE UNCHANGED vars
  BY <1>19 DEF vars
<1> QED
  BY <1>1, <1>2, <1>3, <1>4, <1>5, <1>6, <1>7, <1>8, <1>9,
     <1>10, <1>11, <1>12, <1>13, <1>14, <1>15, <1>16, <1>17, <1>18, <1>19
  DEF Next, DemuxerRuns, InputRuns, PumpRuns

\* The invariant holds throughout.
LEMMA InvariantHolds == Spec => []IInv
BY InitIInv, NextIInv, PTL DEF Spec

\* The variables keep their types, and no pump is given a resource before its
\* thread exists.
THEOREM TypeCorrect == Spec => []TypeOK
<1>1. IInv => TypeOK
  BY DEF IInv
<1> QED
  BY <1>1, InvariantHolds, PTL

\* Each pump transfers its own link's connection, with both resources.
THEOREM PumpsKeepTheirLinks == Spec => []PumpHasOwnLink
<1>1. IInv => PumpHasOwnLink
  BY DEF IInv
<1> QED
  BY <1>1, InvariantHolds, PTL

\* No pump waits when both of its resources are there, in whatever order and
\* from however many threads they came.
THEOREM WakeupsNotLost == Spec => []NoLostWakeup
<1>1. IInv => NoLostWakeup
  BY DEF IInv
<1> QED
  BY <1>1, InvariantHolds, PTL

\* The lock hierarchy stalls only when a second connection is made for a link:
\* getLink never waits for a transfer, and the demuxer thread waits for one
\* only when it has a second connection for that transfer's link.
THEOREM OnlyDuplicatesStall == Spec => []StallOnlyByDuplicate
<1>1. IInv => StallOnlyByDuplicate
  <2> SUFFICES ASSUME IInv PROVE StallOnlyByDuplicate
    OBVIOUS
  <2>1. ASSUME NEW l \in Links, input[l] = "allocate"
        PROVE  ~PumpLocked(l)
    BY <2>1 DEF IInv, BufferAllocated, PumpHasOwnLink
  <2>2. ASSUME demuxer = "assign", PumpLocked(linkId[current])
        PROVE  \E c \in Conns \ {current} :
                   conn[c] = "assigned" /\ linkId[c] = linkId[current]
    <3> DEFINE l == linkId[current]
    <3>1. l \in Links /\ conn[current] = "accepted"
      BY <2>2 DEF IInv, TypeOK, CurrentAccepted
    <3>2. /\ pumpFd[l] \in Conns
          /\ conn[pumpFd[l]] = "assigned" /\ linkId[pumpFd[l]] = l
      BY <2>2, <3>1 DEF IInv, TypeOK, PumpHasOwnLink
    <3>3. pumpFd[l] # current
      BY <3>1, <3>2
    <3> QED
      BY <3>2, <3>3
  <2> QED
    BY <2>1, <2>2 DEF StallOnlyByDuplicate
<1> QED
  BY <1>1, InvariantHolds, PTL
=============================================================================
