------------------------------- MODULE Virtio -------------------------------
(***************************************************************************)
(* The virtio-blk drivers of the firmware (firmware/virtio.c, disk.c) and  *)
(* of the kernel (kernel/virtio_blk.c, blk.c), with the devices they talk  *)
(* to.  Each driver has one static ring, request header, status byte and   *)
(* sector buffer; the firmware uses its own for one device after another,  *)
(* the kernel for the root device only.  Descriptors always form the chain *)
(* header, buffer, status starting at descriptor 0, so ring entries carry  *)
(* nothing: what counts is the two 16-bit indices.                         *)
(*                                                                         *)
(* A device reads a request some time after it was notified, moves the     *)
(* sector, writes the status byte and then counts up the used index: four  *)
(* steps that interleave with the driver's.                                *)
(***************************************************************************)
EXTENDS Naturals, Sequences, FiniteSets

CONSTANTS Devices,
          Sectors,    \* sectors each device has
          Lbas,       \* sector numbers callers ask for, some out of range
          Values,     \* contents of a sector
          QueueSize,  \* QUEUE_SIZE of each driver: 1024 in the firmware, 8 in the kernel
          IdxMod,     \* ring indices are uint16_t: 65536 in the code
          MaxCount,   \* sectors in one call
          MaxLate,    \* devices whose requests may time out: a bound of the model
          Hw,         \* what each device reports: version, features, queue
          Images      \* contents the devices may start with

ASSUME VirtioAssumption ==
    /\ IdxMod \in Nat /\ \A s \in {"fw", "krn"} : QueueSize[s] \in 1 .. IdxMod - 1
    /\ "none" \notin Devices /\ Lbas \subseteq Nat /\ MaxCount \in Nat
    /\ Images \subseteq [Devices -> [Sectors -> Values]] /\ Values # {}

VARIABLES media,  \* contents of the devices
          dev,    \* device side: ring attached, requests seen, stage of the current one
          ring,   \* memory each driver shares with a device
          drv,    \* the driver: side running, place in it, device, interrupt enable
          op,     \* the call of blk_read, blk_write or disk_read_bytes in progress
          out,    \* answer of the kernel's last call
          late    \* devices that may still answer a request that timed out

vvars == <<media, dev, ring, drv, op, out, late>>

NoOp == [type |-> "none"]
Sides == {"fw", "krn"}
Cold == [avail |-> 0, used |-> 0, last |-> 0, status |-> 255, buf |-> CHOOSE v \in Values : TRUE,
         type |-> "in", lba |-> 0]
Quiet == [on |-> "none", seen |-> 0, kick |-> FALSE, stage |-> "idle", type |-> "in", lba |-> 0]

VirtioInit ==
    /\ media \in Images
    /\ dev = [d \in Devices |-> Quiet]
    /\ ring = [s \in Sides |-> Cold]
    /\ drv = [side |-> "fw", at |-> "off", cur |-> "none", sie |-> FALSE, saved |-> FALSE]
    /\ op = NoOp
    /\ out = NoOp
    /\ late = {}

-----------------------------------------------------------------------------
(* Start of a device: both drivers reset it, which drops what it was doing, *)
(* refuse it when it rejects the features or its queue is too short, give   *)
(* it their ring and zero the ring's indices.                               *)
Accepts(s, d) ==
    /\ Hw[d].version >= 1
    /\ Hw[d].version >= 2 => Hw[d].featuresOk
    /\ Hw[d].queueMax >= QueueSize[s]

disk_init(d) ==
    /\ drv.side = "fw" /\ op = NoOp
    /\ dev' = [dev EXCEPT ![d] = [Quiet EXCEPT !.on = IF Accepts("fw", d) THEN "fw" ELSE "none"]]
    /\ ring' = IF Accepts("fw", d)
               THEN [ring EXCEPT !["fw"] = [@ EXCEPT !.avail = 0, !.used = 0, !.last = 0]]
               ELSE ring
    /\ drv' = [drv EXCEPT !.at = IF Accepts("fw", d) THEN "idle" ELSE "off", !.cur = d]
    /\ late' = late \ {d}
    /\ UNCHANGED <<media, op, out>>

\* blk_init runs once, with interrupts still off.  What another device still
\* answers lands in firmware memory, which nobody reads again: it is dropped.
virtio_blk_init(d) ==
    /\ drv.side = "fw" /\ op = NoOp
    /\ dev' = [e \in Devices |->
                 IF e = d /\ Accepts("krn", d) THEN [Quiet EXCEPT !.on = "krn"] ELSE Quiet]
    /\ ring' = [s \in Sides |-> Cold]
    /\ drv' = [side |-> "krn", at |-> IF Accepts("krn", d) THEN "idle" ELSE "off", cur |-> d,
               sie |-> FALSE, saved |-> FALSE]
    /\ late' = {}
    /\ UNCHANGED <<media, op, out>>

\* The kernel turns interrupts on once it is up.
EnableInterrupts ==
    /\ drv.side = "krn" /\ drv.at = "idle" /\ op = NoOp
    /\ drv' = [drv EXCEPT !.sie = ~@]
    /\ UNCHANGED <<media, dev, ring, op, out, late>>

-----------------------------------------------------------------------------
(* Calls.  Both layers go sector by sector through one static buffer.      *)
disk_read_bytes(lba, n) ==
    /\ drv.side = "fw" /\ drv.at = "idle" /\ op = NoOp
    /\ op' = [type |-> "in", lba |-> lba, n |-> n, data |-> <<>>, k |-> 0]
    /\ drv' = [drv EXCEPT !.at = "fill"]
    /\ UNCHANGED <<media, dev, ring, out, late>>

blk_read(lba, n) ==
    /\ drv.side = "krn" /\ drv.at = "idle" /\ op = NoOp
    /\ op' = [type |-> "in", lba |-> lba, n |-> n, data |-> <<>>, k |-> 0]
    /\ drv' = [drv EXCEPT !.at = "fill"]
    /\ out' = NoOp
    /\ UNCHANGED <<media, dev, ring, late>>

blk_write(lba, data) ==
    /\ drv.side = "krn" /\ drv.at = "idle" /\ op = NoOp
    /\ op' = [type |-> "out", lba |-> lba, n |-> Len(data), data |-> data, k |-> 0]
    /\ drv' = [drv EXCEPT !.at = "fill"]
    /\ out' = NoOp
    /\ UNCHANGED <<media, dev, ring, late>>

-----------------------------------------------------------------------------
(* virtio_blk_rw_one and the firmware's virtio_blk_read_one, the same but   *)
(* for the interrupt enable bit and for the way they wait.                  *)
Filled(r) == [r EXCEPT !.type = op.type, !.lba = op.lba + op.k, !.status = 255,
                       !.buf = IF op.type = "out" THEN op.data[op.k + 1] ELSE @]

Fill == /\ drv.at = "fill"
        /\ ring' = [ring EXCEPT ![drv.side] = Filled(@)]
        /\ drv' = IF drv.side = "krn"
                  THEN [drv EXCEPT !.at = "publish", !.saved = drv.sie, !.sie = FALSE]
                  ELSE [drv EXCEPT !.at = "publish"]
        /\ UNCHANGED <<media, dev, op, out, late>>

Publish == /\ drv.at = "publish"
           /\ ring' = [ring EXCEPT ![drv.side].avail = (@ + 1) % IdxMod]
           /\ drv' = [drv EXCEPT !.at = "notify"]
           /\ UNCHANGED <<media, dev, op, out, late>>

Notify_Lost == /\ drv.at = "notify"
          /\ dev' = [dev EXCEPT ![drv.cur].kick = FALSE]
          /\ drv' = [drv EXCEPT !.at = "spin"]
          /\ UNCHANGED <<media, ring, op, out, late>>

Notify == /\ drv.at = "notify"
          /\ dev' = [dev EXCEPT ![drv.cur].kick = TRUE]
          /\ drv' = [drv EXCEPT !.at = "spin"]
          /\ UNCHANGED <<media, ring, op, out, late>>

\* What the caller does with the answer to one sector.
Advance(ok, r) ==
    IF ~ok
    THEN /\ op' = NoOp
         /\ drv' = [drv EXCEPT !.at = "idle", !.sie = drv.saved, !.saved = FALSE]
         /\ out' = IF drv.side = "krn" THEN [type |-> "error"] ELSE out
    ELSE LET o == [op EXCEPT !.k = @ + 1,
                             !.data = IF op.type = "in" THEN Append(@, r.buf) ELSE @] IN
         IF o.k < o.n
         THEN /\ op' = o
              /\ drv' = [drv EXCEPT !.at = "fill", !.sie = drv.saved, !.saved = FALSE]
              /\ UNCHANGED out
         ELSE /\ op' = NoOp
              /\ drv' = [drv EXCEPT !.at = "idle", !.sie = drv.saved, !.saved = FALSE]
              /\ out' = IF drv.side = "krn"
                        THEN [type |-> "ok", data |-> IF o.type = "in" THEN o.data ELSE <<>>]
                        ELSE out

\* While a late answer may come, the one collected may be that one: the current
\* device may then still answer, too.
StillDue == late' = IF late = {} THEN late ELSE late \cup {drv.cur}

Collect_KeepsLast == LET r == ring[drv.side] IN
           /\ drv.at = "spin"
           /\ r.used # r.last
           /\ ring' = [ring EXCEPT ![drv.side] = [@ EXCEPT !.status = @,
                                                          !.type = "in", !.lba = 0]]
           /\ Advance(r.status = 0, r)
           /\ StillDue
           /\ UNCHANGED <<media, dev>>

Collect_AnyStatus == LET r == ring[drv.side] IN
           /\ drv.at = "spin"
           /\ r.used # r.last
           /\ ring' = [ring EXCEPT ![drv.side] = [@ EXCEPT !.last = r.used,
                                                          !.type = "in", !.lba = 0]]
           /\ Advance(TRUE, r)
           /\ StillDue
           /\ UNCHANGED <<media, dev>>

\* The wait ends when the device's index differs from the one last seen.
Collect == LET r == ring[drv.side] IN
           /\ drv.at = "spin"
           /\ r.used # r.last
           /\ ring' = [ring EXCEPT ![drv.side] = [@ EXCEPT !.last = r.used,
                                                          !.type = "in", !.lba = 0]]
           /\ Advance(r.status = 0, r)
           /\ StillDue
           /\ UNCHANGED <<media, dev>>

\* Only the firmware gives up, after ten million turns of its loop.
FwTimeout == LET r == ring["fw"] IN
             /\ drv.side = "fw" /\ drv.at = "spin"
             /\ r.used = r.last /\ Cardinality(late) < MaxLate
             /\ Advance(FALSE, r)
             /\ late' = late \cup {drv.cur}
             /\ UNCHANGED <<media, dev, ring>>

-----------------------------------------------------------------------------
(* The device (external).                                                  *)
DevFetch(d) ==
    LET r == ring[dev[d].on] IN
    /\ dev[d].on \in Sides /\ dev[d].stage = "idle" /\ dev[d].kick
    /\ dev[d].seen # r.avail
    /\ dev' = [dev EXCEPT ![d] = [@ EXCEPT !.seen = (dev[d].seen + 1) % IdxMod, !.stage = "fetched",
                                           !.type = r.type, !.lba = r.lba,
                                           !.kick = (dev[d].seen + 1) % IdxMod # r.avail]]
    /\ UNCHANGED <<media, ring, drv, op, out, late>>

DevMove(d) ==
    /\ dev[d].stage = "fetched"
    /\ dev[d].lba \in Sectors
    /\ dev' = [dev EXCEPT ![d].stage = "moved"]
    /\ \/ /\ dev[d].type = "in"
          /\ ring' = [ring EXCEPT ![dev[d].on].buf = media[d][dev[d].lba]]
          /\ UNCHANGED media
       \/ /\ dev[d].type = "out"
          /\ media' = [media EXCEPT ![d] = [@ EXCEPT ![dev[d].lba] = ring[dev[d].on].buf]]
          /\ UNCHANGED ring
    /\ UNCHANGED <<drv, op, out, late>>

DevFail(d) ==
    /\ dev[d].stage = "fetched"
    /\ dev' = [dev EXCEPT ![d].stage = "failed"]
    /\ UNCHANGED <<media, ring, drv, op, out, late>>

DevStatus(d) ==
    /\ dev[d].stage \in {"moved", "failed"}
    /\ ring' = [ring EXCEPT ![dev[d].on].status = IF dev[d].stage = "moved" THEN 0 ELSE 1]
    /\ dev' = [dev EXCEPT ![d].stage = "told"]
    /\ UNCHANGED <<media, drv, op, out, late>>

DevUsed(d) ==
    /\ dev[d].stage = "told"
    /\ ring' = [ring EXCEPT ![dev[d].on].used = (@ + 1) % IdxMod]
    /\ dev' = [dev EXCEPT ![d] = [@ EXCEPT !.stage = "idle", !.type = "in", !.lba = 0]]
    /\ UNCHANGED <<media, drv, op, out, late>>

-----------------------------------------------------------------------------
Driver == Fill \/ Publish \/ Notify \/ Collect
Device(d) == DevFetch(d) \/ DevMove(d) \/ DevFail(d) \/ DevStatus(d) \/ DevUsed(d)

VirtioNext ==
    \/ \E d \in Devices : disk_init(d) \/ virtio_blk_init(d) \/ Device(d)
    \/ \E lba \in Lbas, n \in 1 .. MaxCount :
          \/ disk_read_bytes(lba, n)
          \/ blk_read(lba, n)
          \/ \E data \in [1 .. n -> Values] : blk_write(lba, data)
    \/ EnableInterrupts \/ Driver \/ FwTimeout

VirtioSpec == VirtioInit /\ [][VirtioNext]_vvars

\* The driver's code runs and a device answers what it was notified of.
VirtioFair == /\ WF_vvars(Driver)
              /\ \A d \in Devices : WF_vvars(Device(d))

-----------------------------------------------------------------------------
VirtioTypeOK ==
    /\ media \in [Devices -> [Sectors -> Values]]
    /\ \A d \in Devices : /\ dev[d].on \in Sides \cup {"none"}
                          /\ dev[d].seen \in 0 .. IdxMod - 1
                          /\ dev[d].stage \in {"idle", "fetched", "moved", "failed", "told"}
    /\ \A s \in Sides : /\ {ring[s].avail, ring[s].used, ring[s].last} \subseteq 0 .. IdxMod - 1
                        /\ ring[s].status \in {0, 1, 255}
                        /\ ring[s].buf \in Values
    /\ drv.at \in {"off", "idle", "fill", "publish", "notify", "spin"}
    /\ late \subseteq Devices

(* Once the kernel's driver is not waiting, its device is idle and has     *)
(* answered everything: nothing is moved into or out of g_bounce, g_req    *)
(* and g_status while blk_read and blk_write use them, however the 16-bit  *)
(* indices have wrapped.                                                   *)
BounceIsOwned ==
    drv.side = "krn" /\ drv.at \in {"idle", "fill", "publish"} =>
        /\ \A d \in Devices : dev[d].on = "krn" => dev[d].stage = "idle"
        /\ ring["krn"].avail = ring["krn"].used
        /\ ring["krn"].used = ring["krn"].last

(* As long as no request of the firmware has timed out, what               *)
(* disk_read_bytes has gathered is what the device it probes holds at the  *)
(* sectors asked for.                                                      *)
FwReadsRight ==
    drv.side = "fw" /\ op # NoOp /\ late = {} =>
        \A j \in 1 .. op.k : /\ op.lba + j - 1 \in Sectors
                             /\ op.data[j] = media[drv.cur][op.lba + j - 1]

(* Each side of the ring uses the request, the status byte and the buffer  *)
(* while they are its own (virtio_blk_rw_one, virtio_blk_read_one).        *)
RingSound == VirtioTypeOK /\ BounceIsOwned /\ FwReadsRight

(* Every call of blk_read and blk_write returns: the wait with interrupts  *)
(* off ends, given that the device answers.                                *)
CallsReturn == (drv.side = "krn" /\ op # NoOp) ~> (op = NoOp)

(* The kernel's block layer implements Disk: a sector counts as served     *)
(* once the device has moved it, and as failed when the call returns -1.   *)
Moved == LET r == ring["krn"] d == drv.cur IN
         /\ drv.at = "spin"
         /\ \/ dev[d].stage = "moved"
            \/ r.status = 0

Served == IF drv.side = "fw" \/ op = NoOp THEN NoOp
          ELSE LET extra == IF Moved THEN 1 ELSE 0 IN
               [type |-> op.type, dev |-> drv.cur, lba |-> op.lba, n |-> op.n,
                k |-> op.k + extra,
                data |-> IF op.type = "in" /\ Moved
                         THEN Append(op.data, ring["krn"].buf) ELSE op.data]

D == INSTANCE Disk WITH disk <- media, call <- Served, out <- out

\* blk_read and blk_write, driver and device together, are an atomic disk:
\* virtio_blk_rw_one and the loops of blk.c against Disk.
ImplementsDisk == D!DiskSpec
=============================================================================
