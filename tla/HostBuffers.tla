---------------------------- MODULE HostBuffers -----------------------------
(***************************************************************************)
(* The host memory a device may read and write: the transport page of      *)
(* Loader::load and the pages of host sessions, from the moment they are   *)
(* mapped until they are unmapped, on every path through the code.  Values *)
(* that clean up when they go out of scope are steps of their own here, in *)
(* the order the language drops them.                                      *)
(***************************************************************************)
EXTENDS Integers, Sequences, FiniteSets, SequencesExt

CONSTANTS
  Batches,   \* batches of tiles a load submits
  Slots,     \* tiles of a batch
  Pages,     \* the pages of a session, in attach order
  Buffers,   \* exchange buffers; the primary interface has the first Primary
  Primary,
  Sessions   \* sessions opened one after the other

ASSUME BuffersAssumption == Batches \in Nat \ {0} /\ Slots \in Nat \ {0} /\ Primary <= Buffers
ASSUME PagesAssumption == Pages \in Seq(Nat)

Transport == 0            \* its buffer index
None == 0                 \* the memory behind an index that is not attached
TransportPage == -1       \* the memory of a session is its number
Executes == -1
Tile(b, s) == <<b, s>>
Empty == <<0, 0>>
Sentinel == <<0, -1>>

VARIABLES
  clientPc,        \* where the client is
  batch,     \* being submitted
  slot,      \* next slot of the page to fill
  page,      \* descriptor area of the transport page
  mark,      \* HSP_GS1
  boot,      \* slots the boot loader has read of this batch, or Executes
  image,     \* the tile whose image each tile of the device was loaded with
  closed,    \* exchange buffers that are closed
  snoop,     \* CCSR as it was, or with the two bits cleared
  attached,  \* the memory behind each buffer index
  mapped,    \* memory that is mapped
  owned,     \* indices of the BufferAttachments of the load or the session
  adding,    \* indices of the local attachments of attach()
  session,   \* sessions opened so far
  invoked    \* the last step was an invocation that went ahead

loadVars == <<batch, slot, page, mark, boot, image, closed, snoop>>
bufferVars == <<clientPc, batch, slot, page, mark, boot, image, closed, snoop, attached,
          mapped, owned, adding, session, invoked>>

ClientGoes(from, to) == clientPc = from /\ clientPc' = to
Attach(i, memory) == attached' = [attached EXCEPT ![i] = memory]
Detach(i) == attached' = [attached EXCEPT ![i] = None]
Storage == session

-----------------------------------------------------------------------------
(* Loader::load *)

MapTransport ==
  /\ ClientGoes("opened", "attaching") /\ mapped' = mapped \cup {TransportPage}
  /\ UNCHANGED <<loadVars, attached, owned, adding, session, invoked>>

AttachTransport ==
  /\ clientPc = "attaching"
  /\ \/ /\ Attach(Transport, TransportPage) /\ owned' = <<Transport>>
        /\ clientPc' = "guard" /\ UNCHANGED mapped
     \/ /\ clientPc' = "unmap" /\ UNCHANGED <<attached, owned, mapped>>
  /\ UNCHANGED <<loadVars, adding, session, invoked>>

CloseBuffers ==
  /\ ClientGoes("guard", "primary") /\ closed' = 1..Buffers /\ snoop' = "cleared"
  /\ UNCHANGED <<batch, slot, page, mark, boot, image, attached, mapped,
                 owned, adding, session, invoked>>

RestorePrimary ==
  /\ ClientGoes("primary", "clear") /\ closed' = closed \ (1..Primary)
  /\ UNCHANGED <<batch, slot, page, mark, boot, image, snoop, attached, mapped,
                 owned, adding, session, invoked>>

ClearPage ==
  /\ ClientGoes("clear", "fill") /\ page' = [s \in 1..Slots |-> Empty] /\ slot' = 1
  /\ UNCHANGED <<batch, mark, boot, image, closed, snoop, attached, mapped,
                 owned, adding, session, invoked>>

\* An image that does not fit ends the load.
FillSlot ==
  /\ clientPc = "fill" /\ slot <= Slots
  /\ \/ /\ page' = [page EXCEPT ![slot] = Tile(batch, slot)] /\ slot' = slot + 1
        /\ UNCHANGED clientPc
     \/ /\ clientPc' = "restore" /\ UNCHANGED <<page, slot>>
  /\ UNCHANGED <<batch, mark, boot, image, closed, snoop, attached, mapped,
                 owned, adding, session, invoked>>

Submit ==
  /\ slot > Slots /\ ClientGoes("fill", "wait") /\ mark' = 1
  /\ UNCHANGED <<batch, slot, page, boot, image, closed, snoop, attached,
                 mapped, owned, adding, session, invoked>>

\* Mutant: the next batch is prepared without waiting for this one.
SubmittedAt(value) == TRUE
Acknowledged(value) == value = 0

MoreBatches == batch < Batches

NextBatch ==
  /\ clientPc = "wait" /\ Acknowledged(mark)
  /\ IF MoreBatches THEN batch' = batch + 1 /\ clientPc' = "clear"
                        ELSE clientPc' = "sentinel" /\ UNCHANGED batch
  /\ UNCHANGED <<slot, page, mark, boot, image, closed, snoop, attached,
                 mapped, owned, adding, session, invoked>>

SubmitSentinel ==
  /\ Acknowledged(mark) /\ ClientGoes("sentinel", "executing")
  /\ page' = [s \in 1..Slots |-> Sentinel] /\ mark' = 1
  /\ UNCHANGED <<batch, slot, boot, image, closed, snoop, attached, mapped,
                 owned, adding, session, invoked>>

HandOver ==
  /\ Acknowledged(mark) /\ ClientGoes("executing", "synchronizing") /\ mark' = Batches
  /\ UNCHANGED <<batch, slot, page, boot, image, closed, snoop, attached,
                 mapped, owned, adding, session, invoked>>

Loaded ==
  /\ Acknowledged(mark) /\ ClientGoes("synchronizing", "restore")
  /\ UNCHANGED <<loadVars, attached, mapped, owned, adding, session, invoked>>

\* Mutant: the wait for the sentinel has no deadline.
BoundedBatchWaits == {"wait", "sentinel", "synchronizing"}
BoundedWaits == {"wait", "sentinel", "executing", "synchronizing"}

WaitFails ==
  /\ clientPc \in BoundedWaits /\ ~Acknowledged(mark)
  /\ clientPc' = "restore"
  /\ UNCHANGED <<loadVars, attached, mapped, owned, adding, session, invoked>>

\* Mutant: buffers of the other interface stay closed.
StillClosedSecondary == (Primary + 1)..Buffers
StillClosed == {}

\* restore_all() of the guard, called or by its drop.
RestoreAll ==
  /\ ClientGoes("restore", "detach") /\ closed' = StillClosed /\ snoop' = "saved"
  /\ UNCHANGED <<batch, slot, page, mark, boot, image, attached, mapped,
                 owned, adding, session, invoked>>

DetachOwned(to) ==
  IF owned # <<>>
    THEN Detach(Last(owned)) /\ owned' = Front(owned) /\ UNCHANGED clientPc
    ELSE clientPc' = to /\ UNCHANGED <<attached, owned>>

DetachTransport ==
  /\ clientPc = "detach" /\ DetachOwned("unmap")
  /\ UNCHANGED <<loadVars, mapped, adding, session, invoked>>

UnmapTransport ==
  /\ ClientGoes("unmap", "loaded") /\ mapped' = mapped \ {TransportPage}
  /\ UNCHANGED <<loadVars, attached, owned, adding, session, invoked>>

(* The SDK's boot loader: it takes a batch slot by slot and acknowledges it. *)

BootReads ==
  /\ mark > 0 /\ boot \in 0..(Slots - 1) /\ attached[Transport] = TransportPage
  /\ boot' = IF page[boot + 1] = Sentinel THEN Executes ELSE boot + 1
  /\ image' = [image EXCEPT ![boot + 1] = Append(@, page[boot + 1])]
  /\ UNCHANGED <<clientPc, batch, slot, page, mark, closed, snoop, attached, mapped,
                 owned, adding, session, invoked>>

\* A started application consumes what is left of the mark, one per batch.
BootAcknowledges ==
  /\ mark > 0 /\ boot \in {Slots, Executes}
  /\ mark' = mark - 1 /\ boot' = IF boot = Slots THEN 0 ELSE boot
  /\ UNCHANGED <<clientPc, batch, slot, page, image, closed, snoop, attached, mapped,
                 owned, adding, session, invoked>>

-----------------------------------------------------------------------------
(* HostSession *)

OpenSession ==
  /\ ClientGoes("loaded", "session") /\ session < Sessions
  /\ session' = session + 1 /\ mapped' = mapped \cup {session'}
  /\ UNCHANGED <<loadVars, attached, owned, adding, invoked>>

\* attach() first drops the attachments of an earlier attach().
StartAttach ==
  /\ ClientGoes("session", "replace") /\ invoked' = FALSE
  /\ UNCHANGED <<loadVars, attached, mapped, owned, adding, session>>

\* Mutant: the earlier attachments live until the new ones replace them.
EarlierKept == TRUE
EarlierDropped == owned = <<>>

DropEarlier ==
  /\ clientPc = "replace"
  /\ IF EarlierDropped THEN clientPc' = "detachAll" /\ UNCHANGED <<attached, owned>>
                       ELSE DetachOwned("detachAll")
  /\ UNCHANGED <<loadVars, mapped, adding, session, invoked>>

DetachAll ==
  /\ clientPc = "detachAll"
  /\ \/ clientPc' = "attach" /\ attached' = [i \in DOMAIN attached |-> None]
     \/ clientPc' = "session" /\ UNCHANGED attached
  /\ UNCHANGED <<loadVars, mapped, owned, adding, session, invoked>>

AttachPage ==
  /\ clientPc = "attach" /\ Len(adding) < Len(Pages)
  /\ \/ /\ Attach(Pages[Len(adding) + 1], Storage)
        /\ adding' = Append(adding, Pages[Len(adding) + 1])
        /\ UNCHANGED clientPc
     \/ clientPc' = "abandon" /\ UNCHANGED <<attached, adding>>
  /\ UNCHANGED <<loadVars, mapped, owned, session, invoked>>

\* The assignment drops what attached_pages was: nothing any more.
Attached ==
  /\ clientPc = "attach" /\ Len(adding) = Len(Pages) /\ clientPc' = "session"
  /\ owned' = adding /\ adding' = <<>>
  /\ attached' = [i \in DOMAIN attached |->
                    IF \E k \in DOMAIN owned : owned[k] = i THEN None ELSE attached[i]]
  /\ UNCHANGED <<loadVars, mapped, session, invoked>>

Undo ==
  IF adding # <<>>
    THEN Detach(Last(adding)) /\ adding' = Front(adding) /\ UNCHANGED <<clientPc, owned>>
    ELSE clientPc' = "session" /\ UNCHANGED <<attached, adding, owned>>

Abandon ==
  /\ clientPc = "abandon" /\ Undo
  /\ UNCHANGED <<loadVars, mapped, session, invoked>>

IsAttached == Len(owned) = Len(Pages)

Invoke ==
  /\ clientPc = "session" /\ IsAttached /\ invoked' = TRUE
  /\ UNCHANGED <<clientPc, loadVars, attached, mapped, owned, adding, session>>

DropOrder == <<"release", "close">>

DropSession ==
  /\ ClientGoes("session", DropOrder[1]) /\ invoked' = FALSE
  /\ UNCHANGED <<loadVars, attached, mapped, owned, adding, session>>

After(step) == IF step = DropOrder[1] THEN DropOrder[2] ELSE "loaded"

DetachPages ==
  /\ clientPc = "release" /\ DetachOwned(After("release"))
  /\ UNCHANGED <<loadVars, mapped, adding, session, invoked>>

UnmapStorage ==
  /\ ClientGoes("close", After("close")) /\ mapped' = mapped \ {Storage}
  /\ UNCHANGED <<loadVars, attached, owned, adding, session, invoked>>

-----------------------------------------------------------------------------

BufferInit ==
  /\ clientPc = "opened" /\ batch = 1 /\ slot = 1
  /\ page = [s \in 1..Slots |-> Empty] /\ mark = 0 /\ boot = 0
  /\ image = [s \in 1..Slots |-> <<>>]
  /\ closed = {} /\ snoop = "saved"
  /\ attached = [i \in {Transport} \cup {Pages[j] : j \in DOMAIN Pages} |-> None]
  /\ mapped = {} /\ owned = <<>> /\ adding = <<>> /\ session = 0 /\ invoked = FALSE

LoadStep ==
  \/ MapTransport \/ AttachTransport \/ CloseBuffers \/ RestorePrimary
  \/ ClearPage \/ FillSlot \/ Submit \/ NextBatch \/ SubmitSentinel \/ HandOver
  \/ Loaded \/ WaitFails \/ RestoreAll \/ DetachTransport \/ UnmapTransport

Serve ==
  \/ OpenSession \/ StartAttach \/ DropEarlier \/ DetachAll \/ AttachPage
  \/ Attached \/ Abandon \/ Invoke \/ DropSession \/ DetachPages \/ UnmapStorage

BufferNext == LoadStep \/ Serve \/ BootReads \/ BootAcknowledges

Fairness == WF_bufferVars(LoadStep)
BufferSpec == BufferInit /\ [][BufferNext]_bufferVars /\ Fairness

-----------------------------------------------------------------------------
(* Properties *)

\* The boot loader gives every tile its own image, batch after batch: the
\* page it reads slot by slot is not rewritten under it.
TilesGetTheirImages ==
  \A s \in 1..Slots : \A n \in DOMAIN image[s] :
    image[s][n] = IF n <= Batches THEN Tile(n, s) ELSE Sentinel

\* Between loads the exchange buffers work and CCSR is what it was, also
\* after a load that failed or timed out in any of its phases.
BuffersAreRestored == clientPc \notin {"guard", "primary", "clear", "fill", "wait", "sentinel", "executing",
  "synchronizing", "restore"} => closed = {} /\ snoop = "saved"

\* The device is never told of memory the process has unmapped, whichever
\* step of loading, attaching or dropping failed, and an invocation goes ahead
\* only when all pages of the session lead to its own storage, also after an
\* attach() that failed halfway was repeated.
InvokesOnItsPages ==
  /\ \A i \in DOMAIN attached : attached[i] # None => attached[i] \in mapped
  /\ invoked => \A i \in 1..Len(Pages) : attached[Pages[i]] = Storage

\* Every load that has begun returns, whether it succeeds, fails or times out.
LoadReturns == clientPc = "attaching" ~> clientPc = "loaded"

=============================================================================
