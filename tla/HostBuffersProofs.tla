-------------------------- MODULE HostBuffersProofs --------------------------
(***************************************************************************)
(* Theorems about HostBuffers, for every number of batches, tiles, pages,  *)
(* buffers and sessions.                                                   *)
(*                                                                         *)
(* That every tile gets its image follows from what the transport page is  *)
(* at each moment: being filled, submitted, or the sentinel; the boot      *)
(* loader reads only a page that is complete, and the page changes only    *)
(* when nothing of it is left to read.  That the device never knows of     *)
(* unmapped memory follows from who holds which index: each index that     *)
(* leads somewhere is held by an attachment that is dropped before the     *)
(* memory is.                                                              *)
(***************************************************************************)
EXTENDS HostBuffers, TLAPS

Elements(s) == {s[j] : j \in DOMAIN s}
Indices == {Transport} \cup Elements(Pages)
Loading == {"guard", "primary", "clear", "fill", "wait", "sentinel", "executing",
            "synchronizing", "restore"}
Serving == {"session", "replace", "detachAll", "attach", "abandon", "release", "close"}

\* What the client and the boot loader keep their state in.
TypeInv ==
  /\ clientPc \in {"opened", "attaching", "detach", "unmap", "loaded"} \cup Loading \cup Serving
  /\ batch \in 1..Batches /\ slot \in 1..(Slots + 1)
  /\ DOMAIN page = 1..Slots
  /\ mark \in Nat /\ boot \in 0..Slots \cup {Executes}
  /\ DOMAIN image = 1..Slots
  /\ attached \in [Indices -> Int] /\ session \in Nat
  /\ owned \in Seq(Indices) /\ adding \in Seq(Indices)
  /\ invoked \in BOOLEAN

\* What a tile has been loaded with after n of its images.
Images(s, n) == [j \in 1..n |-> IF j <= Batches THEN Tile(j, s) ELSE Sentinel]

\* The transport page as the boot loader and the client see it: being filled
\* for batch b, or submitted with some slots read, or the sentinel submitted,
\* or the tiles started.
Filling(b) == mark = 0 /\ boot = 0 /\ \A s \in 1..Slots : image[s] = Images(s, b - 1)
Submitted(b) ==
  /\ mark = 1 /\ boot \in 0..Slots
  /\ \A s \in 1..Slots : page[s] = Tile(b, s)
  /\ \A s \in 1..Slots : image[s] = Images(s, IF s <= boot THEN b ELSE b - 1)
Stopping ==
  /\ mark = 1 /\ boot = 0
  /\ \A s \in 1..Slots : page[s] = Sentinel
  /\ \A s \in 1..Slots : image[s] = Images(s, Batches)
Started ==
  /\ boot = Executes
  /\ \A s \in 1..Slots : image[s] = Images(s, IF s = 1 THEN Batches + 1 ELSE Batches)
AnyStage == Filling(batch) \/ Submitted(batch) \/ Filling(batch + 1) \/ Stopping \/ Started

TransportInv ==
  /\ AnyStage
  /\ clientPc \in {"opened", "attaching", "guard", "primary", "clear", "fill"} => Filling(batch)
  /\ clientPc = "fill" => \A s \in 1..(slot - 1) : page[s] = Tile(batch, s)
  /\ clientPc = "wait" => Submitted(batch) \/ Filling(batch + 1)
  /\ clientPc = "sentinel" => batch = Batches /\ Filling(batch + 1)
  /\ clientPc = "executing" => Stopping \/ Started
  /\ clientPc = "synchronizing" => Started

\* An index leads somewhere only while a BufferAttachments holds it, and only to the
\* memory that is mapped then.
Held(indices, memory) == \A i \in Indices : attached[i] # None => i \in indices /\ attached[i] = memory

AttachmentInv ==
  /\ clientPc = "opened" => mapped = {} /\ Held({}, None)
  /\ clientPc \in {"attaching", "unmap"} => mapped = {TransportPage} /\ Held({}, None)
  /\ clientPc \in Loading \cup {"detach"} =>
       mapped = {TransportPage} /\ Held(Elements(owned), TransportPage)
  /\ clientPc = "loaded" => mapped = {} /\ Held({}, None)
  /\ clientPc \in Serving =>
       mapped = {session} /\ Held(Elements(owned) \cup Elements(adding), session)
  /\ clientPc \in {"opened", "attaching", "unmap", "loaded", "detachAll", "attach", "abandon", "close"} =>
       owned = <<>>
  /\ clientPc \notin {"attach", "abandon"} => adding = <<>>
  /\ clientPc = "attach" =>
       /\ Len(adding) <= Len(Pages)
       /\ \A j \in 1..Len(adding) : adding[j] = Pages[j] /\ attached[adding[j]] = session
  /\ clientPc = "session" /\ owned # <<>> =>
       \A j \in 1..Len(Pages) : attached[Pages[j]] = session
  /\ invoked => clientPc = "session" /\ IsAttached

-----------------------------------------------------------------------------
(* Sequences *)

LEMMA FrontIs ==
  ASSUME NEW S, NEW s \in Seq(S), s # <<>>
  PROVE  /\ Front(s) \in Seq(S) /\ Last(s) \in S
         /\ \A x \in Elements(s) : x # Last(s) => x \in Elements(Front(s))
<1>1. Len(s) \in Nat \ {0} /\ DOMAIN s = 1..Len(s)
  OBVIOUS
<1>2. Front(s) \in Seq(S) /\ Len(Front(s)) = Len(s) - 1 /\ \A j \in 1..(Len(s) - 1) : Front(s)[j] = s[j]
  BY <1>1 DEF Front
<1>3. ASSUME NEW x \in Elements(s), x # Last(s)
      PROVE  x \in Elements(Front(s))
  <2>1. PICK j \in 1..Len(s) : x = s[j]
    BY <1>1 DEF Elements
  <2>2. j \in 1..(Len(s) - 1)
    BY <1>1, <1>3, <2>1 DEF Last
  <2>3. DOMAIN Front(s) = 1..(Len(s) - 1) /\ Front(s)[j] = x
    BY <1>2, <2>1, <2>2
  <2> QED BY <2>2, <2>3 DEF Elements
<1> QED BY <1>1, <1>2, <1>3 DEF Last

LEMMA AppendIs ==
  ASSUME NEW S, NEW s \in Seq(S), NEW e \in S
  PROVE  /\ Append(s, e) \in Seq(S) /\ Len(Append(s, e)) = Len(s) + 1
         /\ Append(s, e)[Len(s) + 1] = e
         /\ \A j \in 1..Len(s) : Append(s, e)[j] = s[j]
         /\ Elements(Append(s, e)) = Elements(s) \cup {e}
<1>1. /\ Append(s, e) \in Seq(S) /\ Len(Append(s, e)) = Len(s) + 1
      /\ Append(s, e)[Len(s) + 1] = e
      /\ \A j \in 1..Len(s) : Append(s, e)[j] = s[j]
      /\ DOMAIN s = 1..Len(s) /\ DOMAIN Append(s, e) = 1..(Len(s) + 1) /\ Len(s) \in Nat
  OBVIOUS
<1>2. \A x \in Elements(s) : x \in Elements(Append(s, e))
  BY <1>1 DEF Elements
<1>3. e \in Elements(Append(s, e))
  BY <1>1 DEF Elements
<1>4. \A x \in Elements(Append(s, e)) : x \in Elements(s) \cup {e}
  BY <1>1 DEF Elements
<1> QED BY <1>1, <1>2, <1>3, <1>4

\* Reading the image of batch n + 1 makes n images n + 1.
LEMMA ImagesGrow ==
  ASSUME NEW s \in 1..Slots, NEW n \in Nat
  PROVE  /\ n + 1 <= Batches => Append(Images(s, n), Tile(n + 1, s)) = Images(s, n + 1)
         /\ n = Batches => Append(Images(s, n), Sentinel) = Images(s, n + 1)
<1> DEFINE e == IF n + 1 <= Batches THEN Tile(n + 1, s) ELSE Sentinel
           ImageKinds == {Tile(j, s) : j \in Nat} \cup {Sentinel}
<1>1. Images(s, n) \in Seq(ImageKinds) /\ Len(Images(s, n)) = n
  BY DEF Images
<1>2. Append(Images(s, n), e) = Images(s, n + 1)
  BY <1>1 DEF Images
<1> QED BY <1>2, BuffersAssumption

\* Giving back the last index held leaves the others with their holders.
LEMMA DetachLast ==
  ASSUME TypeInv, NEW s \in Seq(Indices), s # <<>>, Detach(Last(s)), NEW memory,
         NEW others, Held(Elements(s) \cup others, memory)
  PROVE  /\ attached' \in [Indices -> Int]
         /\ \A i \in Indices : attached'[i] # None =>
              i \in Elements(Front(s)) \cup others /\ attached'[i] = memory
<1>1. Last(s) \in Indices
  BY FrontIs
<1>2. attached' \in [Indices -> Int] /\ attached'[Last(s)] = None
      /\ \A i \in Indices : i # Last(s) => attached'[i] = attached[i]
  BY <1>1 DEF TypeInv, Detach, None
<1> QED BY <1>1, <1>2, FrontIs DEF Held

-----------------------------------------------------------------------------
(* Types *)

LEMMA PagesAreIndices == /\ Indices \subseteq Int /\ Len(Pages) \in Nat
                         /\ \A j \in 1..Len(Pages) : Pages[j] \in Indices
<1>1. DOMAIN Pages = 1..Len(Pages) /\ Len(Pages) \in Nat /\ \A j \in 1..Len(Pages) : Pages[j] \in Nat
  BY PagesAssumption
<1> QED BY <1>1 DEF Indices, Elements, Transport

LEMMA DropOrderIs == DropOrder[1] = "release" /\ After("release") = "close" /\ After("close") = "loaded"
BY DEF DropOrder, After

LEMMA InitTypes == BufferInit => TypeInv
<1> SUFFICES ASSUME BufferInit PROVE TypeInv
  OBVIOUS
<1>1. DOMAIN attached = Indices /\ attached \in [Indices -> Int]
  BY DEF BufferInit, Indices, Elements, None
<1>2. <<>> \in Seq(Indices)
  OBVIOUS
<1>3. DOMAIN page = 1..Slots /\ DOMAIN image = 1..Slots
  BY DEF BufferInit
<1>4. batch \in 1..Batches /\ slot \in 1..(Slots + 1) /\ boot \in 0..Slots /\ mark \in Nat /\ session \in Nat
  BY BuffersAssumption DEF BufferInit
<1> QED BY <1>1, <1>2, <1>3, <1>4 DEF BufferInit, TypeInv

LEMMA LoadTypes == ASSUME TypeInv, LoadStep PROVE TypeInv'
<1> USE DEF TypeInv, ClientGoes, Loading, Serving, loadVars, Acknowledged
<1>1. CASE MapTransport \/ CloseBuffers \/ RestorePrimary \/ Loaded \/ UnmapTransport
  BY <1>1 DEF MapTransport, CloseBuffers, RestorePrimary, Loaded, UnmapTransport
<1>2. CASE AttachTransport
  <2>1. Transport \in Indices /\ TransportPage \in Int
    BY DEF Indices, TransportPage
  <2>2. <<Transport>> \in Seq(Indices)
    BY <2>1
  <2> QED BY <1>2, <2>1, <2>2 DEF AttachTransport, Attach
<1>3. CASE ClearPage \/ Submit \/ NextBatch \/ SubmitSentinel \/ HandOver
  BY <1>3, BuffersAssumption
     DEF ClearPage, Submit, NextBatch, SubmitSentinel, HandOver, MoreBatches
<1>4. CASE FillSlot
  BY <1>4, BuffersAssumption DEF FillSlot
<1>5. CASE WaitFails \/ RestoreAll
  BY <1>5 DEF WaitFails, BoundedWaits, RestoreAll
<1>6. CASE DetachTransport
  BY <1>6, FrontIs DEF DetachTransport, DetachOwned, Detach, None
<1> QED BY <1>1, <1>2, <1>3, <1>4, <1>5, <1>6 DEF LoadStep

LEMMA ServeTypes == ASSUME TypeInv, Serve PROVE TypeInv'
<1> USE DropOrderIs DEF TypeInv, ClientGoes, Loading, Serving, loadVars
<1>1. CASE OpenSession \/ StartAttach \/ Invoke \/ DropSession \/ UnmapStorage
  <2>1. CASE OpenSession
    BY <2>1 DEF OpenSession
  <2>2. CASE StartAttach \/ Invoke \/ DropSession \/ UnmapStorage
    BY <2>2 DEF StartAttach, Invoke, DropSession, UnmapStorage
  <2> QED BY <1>1, <2>1, <2>2
<1>2. CASE DropEarlier \/ DetachPages
  <2>1. owned # <<>> => Front(owned) \in Seq(Indices)
    BY FrontIs
  <2>2. /\ attached' \in [Indices -> Int] /\ owned' \in Seq(Indices)
        /\ clientPc' \in {"replace", "detachAll", "release", "close"}
    BY <1>2, <2>1 DEF DropEarlier, DetachPages, DetachOwned, Detach, None
  <2> QED BY <1>2, <2>2 DEF DropEarlier, DetachPages
<1>3. CASE DetachAll
  BY <1>3 DEF DetachAll, None
<1>4. CASE AttachPage
  <2>1. Pages[Len(adding) + 1] \in Indices
    BY <1>4, PagesAreIndices DEF AttachPage
  <2>2. Append(adding, Pages[Len(adding) + 1]) \in Seq(Indices)
    BY <2>1, AppendIs
  <2>3. session \in Int
    OBVIOUS
  <2>4. attached' \in [Indices -> Int] /\ adding' \in Seq(Indices) /\ clientPc' \in {"attach", "abandon"}
    BY <1>4, <2>1, <2>2, <2>3 DEF AttachPage, Attach, Storage
  <2> QED BY <1>4, <2>4 DEF AttachPage
<1>5. CASE Attached
  <2>1. adding' = <<>> /\ <<>> \in Seq(Indices) /\ owned' = adding
    BY <1>5 DEF Attached
  <2>2. attached' \in [Indices -> Int]
    BY <1>5 DEF Attached, None
  <2> QED BY <1>5, <2>1, <2>2 DEF Attached
<1>6. CASE Abandon
  BY <1>6, FrontIs DEF Abandon, Undo, Detach, None
<1> QED BY <1>1, <1>2, <1>3, <1>4, <1>5, <1>6 DEF Serve

LEMMA BootTypes == ASSUME TypeInv, BootReads \/ BootAcknowledges PROVE TypeInv'
BY BuffersAssumption DEF TypeInv, BootReads, BootAcknowledges, Executes

LEMMA TypesKept == ASSUME TypeInv, [BufferNext]_bufferVars PROVE TypeInv'
<1>1. CASE UNCHANGED bufferVars
  BY <1>1 DEF bufferVars, TypeInv, loadVars
<1> QED BY <1>1, LoadTypes, ServeTypes, BootTypes DEF BufferNext

-----------------------------------------------------------------------------
(* The transport page *)

LEMMA InitTransport == BufferInit => TransportInv
<1> SUFFICES ASSUME BufferInit PROVE TransportInv
  OBVIOUS
<1>1. \A s \in 1..Slots : image[s] = Images(s, 0)
  BY DEF BufferInit, Images
<1> QED BY <1>1 DEF BufferInit, TransportInv, AnyStage, Filling

LEMMA LoadTransport == ASSUME TypeInv, TransportInv, LoadStep PROVE TransportInv'
<1> USE DEF TypeInv, TransportInv, AnyStage, Filling, Submitted, Stopping, Started, ClientGoes, loadVars
<1>1. CASE MapTransport \/ AttachTransport \/ CloseBuffers \/ RestorePrimary
  BY <1>1 DEF MapTransport, AttachTransport, CloseBuffers, RestorePrimary
<1>2. CASE ClearPage
  BY <1>2 DEF ClearPage
<1>3. CASE FillSlot
  <2>1. /\ UNCHANGED <<batch, mark, boot, image>> /\ Filling(batch)
        /\ slot' = slot + 1 => page' = [page EXCEPT ![slot] = Tile(batch, slot)]
        /\ clientPc' \in {"fill", "restore"} /\ (clientPc' = "fill" => slot' = slot + 1)
    BY <1>3 DEF FillSlot
  <2>2. ASSUME slot' = slot + 1, NEW s \in 1..(slot' - 1)
        PROVE  page'[s] = Tile(batch, s)
    <3>1. clientPc = "fill" /\ slot <= Slots /\ slot \in Nat \ {0} /\ s \in 1..slot /\ slot \in 1..Slots
      BY <1>3, <2>2, BuffersAssumption DEF FillSlot
    <3>2. page' = [page EXCEPT ![slot] = Tile(batch, slot)] /\ DOMAIN page = 1..Slots
      BY <2>1, <2>2
    <3>3. s # slot => page[s] = Tile(batch, s)
      BY <3>1
    <3> HIDE DEF TypeInv, TransportInv, AnyStage, Filling, Submitted, Stopping, Started
    <3> QED BY <3>1, <3>2, <3>3
  <2>3. Filling(batch)'
    BY <2>1
  <2>4. clientPc' = "fill" => \A s \in 1..(slot' - 1) : page'[s] = Tile(batch', s)
    BY <2>1, <2>2
  <2> HIDE DEF TypeInv, Filling, Submitted, Stopping, Started
  <2> QED BY <2>1, <2>3, <2>4
<1>4. CASE Submit
  <2>1. mark' = 1 /\ boot' = 0 /\ clientPc' = "wait" /\ batch' = batch /\ page' = page /\ image' = image
    BY <1>4 DEF Submit
  <2>2. \A s \in 1..Slots : page[s] = Tile(batch, s)
    BY <1>4, BuffersAssumption DEF Submit
  <2>3. Submitted(batch)'
    BY <2>1, <2>2, <1>4, BuffersAssumption DEF Submit, Tile
  <2> QED BY <2>1, <2>3
<1>5. CASE NextBatch
  BY <1>5, BuffersAssumption DEF NextBatch, Acknowledged, MoreBatches
<1>6. CASE SubmitSentinel
  <2>1. Stopping'
    BY <1>6, BuffersAssumption DEF SubmitSentinel, Sentinel
  <2> QED BY <1>6, <2>1 DEF SubmitSentinel
<1>7. CASE HandOver
  <2>1. Started /\ UNCHANGED <<batch, slot, page, boot, image>> /\ clientPc' = "synchronizing"
    BY <1>7 DEF HandOver, Acknowledged
  <2> QED BY <2>1
<1>9. CASE Loaded
  <2>1. Started /\ UNCHANGED <<batch, slot, page, mark, boot, image>> /\ clientPc' = "restore"
    BY <1>9 DEF Loaded, Acknowledged
  <2> QED BY <2>1
<1>8. CASE WaitFails \/ RestoreAll \/ DetachTransport \/ UnmapTransport
  <2>1. UNCHANGED <<batch, slot, page, mark, boot, image>> /\ clientPc' \in {"restore", "detach", "unmap", "loaded"}
    BY <1>8 DEF WaitFails, RestoreAll, DetachTransport, UnmapTransport, DetachOwned
  <2> QED BY <2>1
<1> QED BY <1>1, <1>2, <1>3, <1>4, <1>5, <1>6, <1>7, <1>8, <1>9 DEF LoadStep

\* The sessions come after the load: the transport page is left alone.
LEMMA ServeTransport == ASSUME TypeInv, TransportInv, Serve PROVE TransportInv'
<1>1. /\ UNCHANGED loadVars
      /\ clientPc' \in Serving \cup {"loaded"}
  BY DropOrderIs DEF Serve, Serving, OpenSession, StartAttach, DropEarlier, DetachAll, AttachPage, Attached,
     Abandon, Invoke, DropSession, DetachPages, UnmapStorage, DetachOwned, Undo, ClientGoes
<1> QED BY <1>1 DEF loadVars, Serving, TransportInv, AnyStage, Filling, Submitted, Stopping, Started, TypeInv

\* The boot loader reads each slot of a submitted page once.
LEMMA ReadTransport == ASSUME TypeInv, TransportInv, BootReads PROVE TransportInv'
<1> DEFINE s == boot + 1
<1>1. /\ mark > 0 /\ boot \in 0..(Slots - 1) /\ s \in 1..Slots
      /\ boot' = IF page[s] = Sentinel THEN Executes ELSE s
      /\ image' = [image EXCEPT ![s] = Append(@, page[s])]
      /\ UNCHANGED <<clientPc, batch, slot, page, mark>>
  BY BuffersAssumption DEF BootReads
<1>2. image'[s] = Append(image[s], page[s]) /\ \A r \in 1..Slots : r # s => image'[r] = image[r]
  BY <1>1 DEF TypeInv
<1>3. Executes \notin 0..(Slots - 1)
  BY DEF Executes
<1>4. CASE Submitted(batch)
  <2>1. page[s] = Tile(batch, s) /\ page[s] # Sentinel
    BY <1>1, <1>4 DEF Submitted, Tile, Sentinel, TypeInv
  <2>2. image'[s] = Images(s, batch)
    <3>1. batch - 1 \in Nat /\ batch <= Batches /\ batch = (batch - 1) + 1
      BY BuffersAssumption DEF TypeInv
    <3>2. image[s] = Images(s, batch - 1)
      BY <1>1, <1>4 DEF Submitted
    <3>3. Append(Images(s, batch - 1), Tile(batch, s)) = Images(s, batch)
      BY <1>1, <3>1, ImagesGrow
    <3> QED BY <1>2, <2>1, <3>2, <3>3
  <2>3. Submitted(batch)'
    <3>1. boot' = s
      BY <1>1, <2>1
    <3>2. \A r \in 1..Slots : image'[r] = Images(r, IF r <= s THEN batch ELSE batch - 1)
      BY <1>1, <1>2, <1>4, <2>2 DEF Submitted
    <3> QED BY <1>1, <1>4, <3>1, <3>2 DEF Submitted, Images
  <2>4. ~Filling(batch) /\ ~Filling(batch + 1) /\ ~Started
    BY <1>1, <1>3 DEF Filling, Started
  <2>5. clientPc \notin {"executing", "synchronizing"}
    BY <1>1, <1>3, <1>4, <2>1, BuffersAssumption DEF TransportInv, Stopping, Started, Submitted, Tile, Sentinel, TypeInv
  <2> QED BY <1>1, <2>3, <2>4, <2>5 DEF TransportInv, AnyStage
<1>5. CASE Stopping
  <2>1. s = 1 /\ page[s] = Sentinel
    BY <1>1, <1>5 DEF Stopping
  <2>2. image'[s] = Images(s, Batches + 1)
    BY <1>1, <1>2, <1>5, <2>1, ImagesGrow, BuffersAssumption DEF Stopping
  <2>3. Started'
    BY <1>1, <1>2, <1>5, <2>1, <2>2 DEF Started, Stopping, Images
  <2>4. ~Filling(batch) /\ ~Filling(batch + 1) /\ ~Submitted(batch)
    BY <1>1, <1>5, <2>1 DEF Filling, Submitted, Tile, Sentinel, TypeInv
  <2> QED BY <1>1, <2>3, <2>4 DEF TransportInv, AnyStage
<1>6. Submitted(batch) \/ Stopping
  BY <1>1, <1>3 DEF TransportInv, AnyStage, Filling, Started
<1> QED BY <1>4, <1>5, <1>6

LEMMA AcknowledgeTransport == ASSUME TypeInv, TransportInv, BootAcknowledges PROVE TransportInv'
<1>1. /\ mark > 0 /\ boot \in {Slots, Executes} /\ mark' = mark - 1
      /\ boot' = IF boot = Slots THEN 0 ELSE boot
      /\ UNCHANGED <<clientPc, batch, slot, page, image>>
  BY DEF BootAcknowledges
<1>2. Executes # Slots /\ Executes # 0 /\ Slots # 0
  BY BuffersAssumption DEF Executes
<1>3. CASE Submitted(batch)
  <2>1. boot = Slots
    BY <1>1, <1>2, <1>3, BuffersAssumption DEF Submitted, Executes
  <2>2. mark' = 0 /\ boot' = 0
    BY <1>1, <1>3, <2>1 DEF Submitted
  <2>3. \A s \in 1..Slots : image'[s] = Images(s, batch)
    BY <1>1, <1>3, <2>1 DEF Submitted
  <2>4. Filling(batch + 1)'
    BY <1>1, <2>2, <2>3 DEF Filling, TypeInv, Images
  <2>5. ~Filling(batch) /\ ~Filling(batch + 1) /\ ~Started /\ ~Stopping
    BY <1>1, <1>2, <1>3, <2>1 DEF Filling, Started, Stopping
  <2> QED BY <1>1, <2>4, <2>5 DEF TransportInv, AnyStage
<1>4. CASE Started
  <2>1. Started'
    BY <1>1, <1>2, <1>4 DEF Started, Images
  <2>2. ~Filling(batch) /\ ~Filling(batch + 1) /\ ~Submitted(batch)
    BY <1>2, <1>4, BuffersAssumption DEF Filling, Submitted, Started, Executes
  <2> QED BY <1>1, <2>1, <2>2 DEF TransportInv, AnyStage
<1>5. Submitted(batch) \/ Started
  BY <1>1, <1>2 DEF TransportInv, AnyStage, Filling, Stopping
<1> QED BY <1>3, <1>4, <1>5

LEMMA TransportKept == ASSUME TypeInv, TransportInv, [BufferNext]_bufferVars PROVE TransportInv'
<1>1. CASE UNCHANGED bufferVars
  BY <1>1 DEF bufferVars, TransportInv, AnyStage, Filling, Submitted, Stopping, Started
<1> QED BY <1>1, LoadTransport, ServeTransport, ReadTransport, AcknowledgeTransport DEF BufferNext

-----------------------------------------------------------------------------
(* Who holds which index *)

LEMMA InitAttachment == BufferInit => AttachmentInv
<1> SUFFICES ASSUME BufferInit PROVE AttachmentInv
  OBVIOUS
<1>1. Held({}, None)
  BY DEF BufferInit, Held, Indices, Elements, None
<1> QED BY <1>1 DEF BufferInit, AttachmentInv, Loading, Serving

LEMMA LoadAttachment == ASSUME TypeInv, AttachmentInv, LoadStep PROVE AttachmentInv'
<1> USE DEF ClientGoes, Loading, Serving, loadVars
<1>1. adding = <<>> /\ adding' = <<>> /\ invoked = FALSE /\ invoked' = FALSE
  <2>1. clientPc \notin Serving
    BY DEF LoadStep, MapTransport, AttachTransport, CloseBuffers, RestorePrimary, ClearPage, FillSlot, Submit,
       NextBatch, SubmitSentinel, HandOver, Loaded, WaitFails, BoundedWaits, RestoreAll, DetachTransport, UnmapTransport
  <2>2. adding = <<>> /\ invoked = FALSE
    BY <2>1 DEF AttachmentInv, TypeInv
  <2> QED BY <2>2
     DEF LoadStep, MapTransport, AttachTransport, CloseBuffers, RestorePrimary, ClearPage, FillSlot, Submit,
       NextBatch, SubmitSentinel, HandOver, Loaded, WaitFails, RestoreAll, DetachTransport, UnmapTransport
<1>2. CASE MapTransport
  BY <1>1, <1>2 DEF MapTransport, AttachmentInv, Held
<1>3. CASE AttachTransport
  <2>1. Held({}, None) /\ mapped = {TransportPage}
    BY <1>3 DEF AttachTransport, AttachmentInv
  <2>2. CASE clientPc' = "guard"
    <3>1. owned' = <<Transport>> /\ attached' = [attached EXCEPT ![Transport] = TransportPage] /\ mapped' = mapped
      BY <1>3, <2>2 DEF AttachTransport, Attach
    <3>2. Transport \in Elements(<<Transport>>)
      BY DEF Elements
    <3>3. Held(Elements(owned), TransportPage)'
      BY <2>1, <3>1, <3>2 DEF Held, TypeInv, None
    <3> QED BY <1>1, <2>1, <2>2, <3>1, <3>3 DEF AttachmentInv
  <2>3. CASE clientPc' = "unmap"
    <3>1. UNCHANGED <<attached, owned, mapped>> /\ owned = <<>>
      BY <1>3, <2>3 DEF AttachTransport, AttachmentInv
    <3> QED BY <1>1, <2>1, <2>3, <3>1 DEF AttachmentInv, Held
  <2> QED BY <1>3, <2>2, <2>3 DEF AttachTransport
<1>4. CASE CloseBuffers \/ RestorePrimary \/ ClearPage \/ FillSlot \/ Submit \/ NextBatch
           \/ SubmitSentinel \/ HandOver \/ Loaded \/ WaitFails \/ RestoreAll
  <2>1. /\ UNCHANGED <<attached, owned, mapped>> /\ clientPc \in Loading
        /\ clientPc' \in Loading \cup {"detach"}
    BY <1>4 DEF CloseBuffers, RestorePrimary, ClearPage, FillSlot, Submit, NextBatch, SubmitSentinel, HandOver,
       Loaded, WaitFails, BoundedWaits, RestoreAll
  <2> QED BY <1>1, <2>1 DEF AttachmentInv, Held
<1>5. CASE DetachTransport
  <2>1. clientPc = "detach" /\ mapped = {TransportPage} /\ Held(Elements(owned), TransportPage) /\ mapped' = mapped
    BY <1>5 DEF DetachTransport, AttachmentInv
  <2>2. CASE owned = <<>>
    <3>1. Elements(owned) = {} /\ UNCHANGED <<attached, owned>> /\ clientPc' = "unmap"
      BY <1>5, <2>2 DEF DetachTransport, DetachOwned, Elements
    <3>2. Held({}, None)'
      BY <2>1, <3>1 DEF Held
    <3> QED BY <1>1, <2>1, <2>2, <3>1, <3>2 DEF AttachmentInv
  <2>3. CASE owned # <<>>
    <3>1. Detach(Last(owned)) /\ owned' = Front(owned) /\ clientPc' = "detach"
      BY <1>5, <2>1, <2>3 DEF DetachTransport, DetachOwned
    <3>2. Held(Elements(owned) \cup {}, TransportPage) /\ owned \in Seq(Indices)
      BY <2>1 DEF TypeInv
    <3>3. Held(Elements(owned), TransportPage)'
      BY <2>3, <3>1, <3>2, DetachLast DEF Held
    <3> QED BY <1>1, <2>1, <3>1, <3>3 DEF AttachmentInv
  <2> QED BY <2>2, <2>3
<1>6. CASE UnmapTransport
  BY <1>1, <1>6 DEF UnmapTransport, AttachmentInv, Held
<1> QED BY <1>2, <1>3, <1>4, <1>5, <1>6 DEF LoadStep

LEMMA ServeAttachment == ASSUME TypeInv, AttachmentInv, Serve PROVE AttachmentInv'
<1> USE DEF ClientGoes, Loading, Serving, loadVars
<1>1. CASE OpenSession
  <2>1. owned = <<>> /\ adding = <<>> /\ Elements(owned) \cup Elements(adding) = {} /\ invoked = FALSE
    BY <1>1 DEF OpenSession, AttachmentInv, Elements, TypeInv
  <2>2. mapped' = {session'} /\ UNCHANGED <<attached, owned, adding, invoked>> /\ clientPc' = "session" /\ Held({}, None)
    BY <1>1 DEF OpenSession, AttachmentInv
  <2>3. Held(Elements(owned) \cup Elements(adding), session)'
    BY <2>1, <2>2 DEF Held
  <2> QED BY <2>1, <2>2, <2>3 DEF AttachmentInv
<1>2. CASE StartAttach \/ DropSession
  <2>1. /\ UNCHANGED <<attached, mapped, owned, adding, session>> /\ invoked' = FALSE /\ clientPc = "session"
        /\ clientPc' \in {"replace", "release"}
    BY <1>2, DropOrderIs DEF StartAttach, DropSession
  <2> QED BY <2>1 DEF AttachmentInv, Held
<1>3. CASE DropEarlier \/ DetachPages
  <2>1. /\ clientPc \in {"replace", "release"} /\ UNCHANGED <<mapped, adding, session, invoked>>
        /\ adding = <<>> /\ invoked = FALSE
    BY <1>3 DEF DropEarlier, DetachPages, AttachmentInv, TypeInv
  <2>2. mapped = {session} /\ Held(Elements(owned) \cup Elements(adding), session)
    BY <2>1 DEF AttachmentInv
  <2>3. CASE owned = <<>>
    <3>1. UNCHANGED <<attached, owned>> /\ clientPc' \in {"detachAll", "close"}
      BY <1>3, <2>3, DropOrderIs DEF DropEarlier, EarlierDropped, DetachPages, DetachOwned
    <3> QED BY <2>1, <2>2, <2>3, <3>1 DEF AttachmentInv, Held
  <2>4. CASE owned # <<>>
    <3>1. Detach(Last(owned)) /\ owned' = Front(owned) /\ UNCHANGED clientPc /\ owned \in Seq(Indices)
      BY <1>3, <2>4 DEF DropEarlier, EarlierDropped, DetachPages, DetachOwned, TypeInv
    <3>2. Held(Elements(owned) \cup Elements(adding), session)'
      BY <2>1, <2>2, <2>4, <3>1, DetachLast DEF Held
    <3> QED BY <2>1, <2>2, <3>1, <3>2 DEF AttachmentInv
  <2> QED BY <2>3, <2>4
<1>4. CASE DetachAll
  <2>1. /\ UNCHANGED <<mapped, owned, adding, session, invoked>> /\ owned = <<>> /\ adding = <<>> /\ invoked = FALSE
        /\ mapped = {session} /\ Held(Elements(owned) \cup Elements(adding), session)
    BY <1>4 DEF DetachAll, AttachmentInv, TypeInv
  <2>2. clientPc' \in {"attach", "session"} /\ Held(Elements(owned) \cup Elements(adding), session)'
    BY <1>4, <2>1 DEF DetachAll, Held, TypeInv
  <2> QED BY <2>1, <2>2, PagesAreIndices DEF AttachmentInv
<1>5. CASE AttachPage
  <2>1. /\ UNCHANGED <<mapped, owned, session, invoked>> /\ owned = <<>> /\ invoked = FALSE /\ clientPc = "attach"
        /\ mapped = {session} /\ Held(Elements(owned) \cup Elements(adding), session)
        /\ Len(adding) <= Len(Pages)
        /\ \A j \in 1..Len(adding) : adding[j] = Pages[j] /\ attached[adding[j]] = session
    BY <1>5 DEF AttachPage, AttachmentInv, TypeInv
  <2>2. CASE clientPc' = "abandon"
    <3>1. UNCHANGED <<attached, adding>>
      BY <1>5, <2>1, <2>2 DEF AttachPage
    <3> QED BY <2>1, <2>2, <3>1 DEF AttachmentInv, Held
  <2>3. CASE clientPc' = "attach"
    <3> DEFINE next == Pages[Len(adding) + 1]
    <3>1. attached' = [attached EXCEPT ![next] = session] /\ adding' = Append(adding, next) /\ Len(adding) < Len(Pages)
      BY <1>5, <2>1, <2>3 DEF AttachPage, Attach, Storage
    <3>2. Len(adding) \in Nat /\ Len(Pages) \in Nat /\ adding \in Seq(Indices) /\ next \in Indices
      BY <3>1, PagesAreIndices DEF TypeInv
    <3>3. /\ Len(adding') = Len(adding) + 1 /\ adding'[Len(adding) + 1] = next
          /\ \A j \in 1..Len(adding) : adding'[j] = adding[j]
          /\ Elements(adding') = Elements(adding) \cup {next}
      BY <3>1, <3>2, AppendIs
    <3>4. attached'[next] = session /\ \A i \in Indices : attached'[i] = attached[i] \/ i = next
      BY <3>1, <3>2 DEF TypeInv
    <3>5. Held(Elements(owned) \cup Elements(adding), session)'
      BY <2>1, <3>3, <3>4 DEF Held
    <3>6. ASSUME NEW j \in 1..Len(adding')
          PROVE  adding'[j] = Pages[j] /\ attached'[adding'[j]] = session
      <4>1. CASE j = Len(adding) + 1
        BY <3>3, <3>4, <4>1
      <4>2. CASE j # Len(adding) + 1
        <5>1. j \in 1..Len(adding)
          BY <3>2, <3>3, <4>2
        <5>2. Pages[j] \in Indices
          BY <2>1, <3>2, <5>1, PagesAreIndices
        <5> QED BY <2>1, <3>3, <3>4, <5>1, <5>2
      <4> QED BY <4>1, <4>2
    <3>7. Len(adding') <= Len(Pages)
      BY <3>1, <3>2, <3>3
    <3> QED BY <2>1, <2>3, <3>5, <3>6, <3>7 DEF AttachmentInv
  <2> QED BY <1>5, <2>1, <2>2, <2>3 DEF AttachPage
<1>6. CASE Attached
  <2>1. /\ clientPc = "attach" /\ clientPc' = "session" /\ Len(adding) = Len(Pages) /\ owned = <<>>
        /\ owned' = adding /\ adding' = <<>> /\ UNCHANGED <<mapped, session, invoked>> /\ invoked = FALSE
        /\ mapped = {session} /\ Held(Elements(owned) \cup Elements(adding), session)
        /\ \A j \in 1..Len(adding) : adding[j] = Pages[j] /\ attached[adding[j]] = session
    BY <1>6 DEF Attached, AttachmentInv, TypeInv
  <2>2. \A i \in Indices : attached'[i] = attached[i]
    BY <1>6, <2>1 DEF Attached, TypeInv
  <2>3. Elements(adding') = {} /\ Elements(owned) = {}
    BY <2>1 DEF Elements
  <2>4. Held(Elements(owned) \cup Elements(adding), session)'
    BY <2>1, <2>2, <2>3 DEF Held
  <2>5. \A j \in 1..Len(Pages) : attached'[Pages[j]] = session
    BY <2>1, <2>2, PagesAreIndices
  <2> QED BY <2>1, <2>4, <2>5 DEF AttachmentInv
<1>7. CASE Abandon
  <2>1. /\ clientPc = "abandon" /\ UNCHANGED <<mapped, owned, session, invoked>> /\ owned = <<>> /\ invoked = FALSE
        /\ mapped = {session} /\ Held(Elements(owned) \cup Elements(adding), session)
    BY <1>7 DEF Abandon, Undo, AttachmentInv, TypeInv
  <2>2. CASE adding = <<>>
    <3>1. UNCHANGED <<attached, adding>> /\ clientPc' = "session"
      BY <1>7, <2>2 DEF Abandon, Undo
    <3> QED BY <2>1, <2>2, <3>1 DEF AttachmentInv, Held
  <2>3. CASE adding # <<>>
    <3>1. Detach(Last(adding)) /\ adding' = Front(adding) /\ UNCHANGED clientPc /\ adding \in Seq(Indices)
      BY <1>7, <2>3 DEF Abandon, Undo, TypeInv
    <3>2. Held(Elements(adding) \cup Elements(owned), session)
      BY <2>1 DEF Held
    <3>3. Held(Elements(owned) \cup Elements(adding), session)'
      BY <2>1, <2>3, <3>1, <3>2, DetachLast DEF Held
    <3> QED BY <2>1, <3>1, <3>3 DEF AttachmentInv
  <2> QED BY <2>2, <2>3
<1>8. CASE Invoke
  BY <1>8 DEF Invoke, AttachmentInv, Held, IsAttached
<1>9. CASE UnmapStorage
  <2>1. /\ clientPc = "close" /\ clientPc' = "loaded" /\ mapped' = mapped \ {session}
        /\ UNCHANGED <<attached, owned, adding, session, invoked>>
    BY <1>9, DropOrderIs DEF UnmapStorage, Storage
  <2>2. owned = <<>> /\ adding = <<>> /\ invoked = FALSE /\ mapped = {session} /\ Elements(owned) \cup Elements(adding) = {}
    BY <2>1 DEF AttachmentInv, TypeInv, Elements
  <2>3. Held({}, None)'
    BY <2>1, <2>2 DEF AttachmentInv, Held
  <2> QED BY <2>1, <2>2, <2>3 DEF AttachmentInv
<1> QED BY <1>1, <1>2, <1>3, <1>4, <1>5, <1>6, <1>7, <1>8, <1>9 DEF Serve

LEMMA AttachmentKept == ASSUME TypeInv, AttachmentInv, [BufferNext]_bufferVars PROVE AttachmentInv'
<1>1. CASE UNCHANGED bufferVars
  BY <1>1 DEF bufferVars, AttachmentInv, Held, IsAttached
<1>2. CASE BootReads \/ BootAcknowledges
  BY <1>2 DEF BootReads, BootAcknowledges, AttachmentInv, Held, IsAttached
<1> QED BY <1>1, <1>2, LoadAttachment, ServeAttachment DEF BufferNext

-----------------------------------------------------------------------------
(* Theorems *)

IInv == TypeInv /\ TransportInv /\ AttachmentInv

LEMMA Invariance == BufferSpec => []IInv
<1>1. BufferInit => IInv
  BY InitTypes, InitTransport, InitAttachment DEF IInv
<1>2. IInv /\ [BufferNext]_bufferVars => IInv'
  BY TypesKept, TransportKept, AttachmentKept DEF IInv
<1> QED BY <1>1, <1>2, PTL DEF BufferSpec

\* Loader::load writes the next batch into the transport page only after the
\* boot loader has acknowledged the one before, so no tile is ever loaded with
\* the image of another tile or of another batch, and the sentinel comes last.
THEOREM ImagesReachTheirTiles == BufferSpec => []TilesGetTheirImages
<1>1. IInv => TilesGetTheirImages
  <2> SUFFICES ASSUME IInv, NEW s \in 1..Slots, NEW n \in DOMAIN image[s]
               PROVE  image[s][n] = IF n <= Batches THEN Tile(n, s) ELSE Sentinel
    BY DEF TilesGetTheirImages
  <2>1. \E m \in Int : image[s] = Images(s, m)
    <3>1. batch \in Int /\ Batches \in Int /\ AnyStage
      BY BuffersAssumption DEF IInv, TypeInv, TransportInv
    <3>2. CASE Filling(batch)
      <4>1. image[s] = Images(s, batch - 1) /\ batch - 1 \in Int
        BY <3>1, <3>2 DEF Filling
      <4> QED BY <4>1
    <3>3. CASE Submitted(batch)
      <4>1. image[s] = Images(s, IF s <= boot THEN batch ELSE batch - 1) /\ batch - 1 \in Int
        BY <3>1, <3>3 DEF Submitted
      <4> QED BY <3>1, <4>1
    <3>4. CASE Filling(batch + 1)
      <4>1. image[s] = Images(s, (batch + 1) - 1) /\ (batch + 1) - 1 \in Int
        BY <3>1, <3>4 DEF Filling
      <4> QED BY <4>1
    <3>5. CASE Stopping \/ Started
      <4>1. Batches + 1 \in Int /\ (image[s] = Images(s, Batches) \/ image[s] = Images(s, Batches + 1))
        BY <3>1, <3>5 DEF Stopping, Started
      <4> QED BY <3>1, <4>1
    <3> QED BY <3>1, <3>2, <3>3, <3>4, <3>5 DEF AnyStage
  <2> QED BY <2>1 DEF Images
<1> QED BY <1>1, Invariance, PTL

\* ExchangeBufferGuard puts the exchange buffers and CCSR back on every path out
\* of Loader::load, its errors and deadlines included.
THEOREM GuardRestores == BufferSpec => []BuffersAreRestored
<1>1. BufferInit => BuffersAreRestored
  BY DEF BufferInit, BuffersAreRestored
<1>2. ASSUME BuffersAreRestored, [BufferNext]_bufferVars
      PROVE  BuffersAreRestored'
  <2> USE <1>2 DEF BuffersAreRestored, ClientGoes, loadVars
  <2>1. CASE UNCHANGED bufferVars
    BY <2>1 DEF bufferVars
  <2>2. CASE LoadStep
    BY <2>2 DEF LoadStep, MapTransport, AttachTransport, CloseBuffers, RestorePrimary, ClearPage, FillSlot, Submit,
       NextBatch, SubmitSentinel, HandOver, Loaded, WaitFails, BoundedWaits, RestoreAll, StillClosed,
       DetachTransport, DetachOwned, UnmapTransport
  <2>3. CASE Serve
    BY <2>3, DropOrderIs DEF Serve, OpenSession, StartAttach, DropEarlier, DetachAll, AttachPage, Attached,
       Abandon, Invoke, DropSession, DetachPages, UnmapStorage, DetachOwned, Undo
  <2>4. CASE BootReads \/ BootAcknowledges
    BY <2>4 DEF BootReads, BootAcknowledges
  <2> QED BY <2>1, <2>2, <2>3, <2>4 DEF BufferNext
<1> QED BY <1>1, <1>2, PTL DEF BufferSpec

\* Every BufferAttachment is dropped before the storage it points into, whichever
\* attach() failed and however far it had come, and a session that invokes has
\* all its pages attached to its own storage.
THEOREM PagesLeadToTheirStorage == BufferSpec => []InvokesOnItsPages
<1>1. IInv => InvokesOnItsPages
  <2> SUFFICES ASSUME IInv PROVE InvokesOnItsPages
    OBVIOUS
  <2>1. DOMAIN attached = Indices
    BY DEF IInv, TypeInv
  <2>2. \A i \in Indices : attached[i] # None => attached[i] \in mapped
    BY DEF IInv, TypeInv, AttachmentInv, Held, Loading, Serving
  <2>3. ASSUME invoked, NEW j \in 1..Len(Pages)
        PROVE  attached[Pages[j]] = Storage
    <3>1. clientPc = "session" /\ Len(owned) = Len(Pages)
      BY <2>3 DEF IInv, AttachmentInv, IsAttached
    <3>2. owned # <<>>
      BY <2>3, <3>1, PagesAreIndices
    <3> QED BY <3>1, <3>2 DEF IInv, AttachmentInv, Storage
  <2> QED BY <2>1, <2>2, <2>3 DEF InvokesOnItsPages
<1> QED BY <1>1, Invariance, PTL

=============================================================================
