-------------------------------- MODULE Disk --------------------------------
(***************************************************************************)
(* What the block layer promises its callers (blk_read and blk_write):     *)
(* one call at a time, its sectors served one after the other, each in one *)
(* step, on a device that keeps what was written last.  A call that fails  *)
(* has served a prefix of its sectors.                                     *)
(***************************************************************************)
EXTENDS Naturals, Sequences

CONSTANTS Devices, Lbas, Sectors, Values, MaxCount

VARIABLES disk,   \* [Devices -> [Sectors -> Values]]
          call,   \* the call in progress, or NoCall
          out     \* the answer of the last call, or NoCall

dvars == <<disk, call, out>>

NoCall == [type |-> "none"]

DiskInit == /\ disk \in [Devices -> [Sectors -> Values]]
            /\ call = NoCall
            /\ out = NoCall

DiskRead(d, lba, n) ==
    /\ call = NoCall
    /\ call' = [type |-> "in", dev |-> d, lba |-> lba, n |-> n, data |-> <<>>,
                k |-> 0]
    /\ out' = NoCall
    /\ UNCHANGED disk

DiskWrite(d, lba, data) ==
    /\ call = NoCall
    /\ call' = [type |-> "out", dev |-> d, lba |-> lba, n |-> Len(data),
                data |-> data, k |-> 0]
    /\ out' = NoCall
    /\ UNCHANGED disk

\* The next sector of the call, which must be one the device has.
Serve ==
    LET s == call.lba + call.k IN
    /\ call # NoCall
    /\ call.k < call.n
    /\ s \in Sectors
    /\ \/ /\ call.type = "in"
          /\ call' = [call EXCEPT !.k = @ + 1,
                                  !.data = Append(@, disk[call.dev][s])]
          /\ UNCHANGED disk
       \/ /\ call.type = "out"
          /\ disk' = [disk EXCEPT ![call.dev] = [@ EXCEPT ![s] = call.data[call.k + 1]]]
          /\ call' = [call EXCEPT !.k = @ + 1]
    /\ UNCHANGED out

Answer ==
    /\ call # NoCall
    /\ \/ /\ call.k = call.n
          /\ out' = [type |-> "ok", data |-> IF call.type = "in" THEN call.data ELSE <<>>]
       \/ /\ call.k < call.n
          /\ out' = [type |-> "error"]
    /\ call' = NoCall
    /\ UNCHANGED disk

DiskNext == \/ \E d \in Devices, lba \in Lbas, n \in 1 .. MaxCount : DiskRead(d, lba, n)
            \/ \E d \in Devices, lba \in Lbas, n \in 1 .. MaxCount :
                  \E data \in [1 .. n -> Values] : DiskWrite(d, lba, data)
            \/ Serve
            \/ Answer

DiskSpec == DiskInit /\ [][DiskNext]_dvars
=============================================================================
