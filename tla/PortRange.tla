------------------------------ MODULE PortRange ------------------------------
(***************************************************************************)
(* The ports of the workers a pool starts with (supervisor/src/pool.rs):   *)
(* what WorkerPool::new checks of base_port, worker_count and max_port,    *)
(* and the ports start() then gives out.  A port is a u16 and "as u16"     *)
(* keeps the last 16 bits.                                                 *)
(***************************************************************************)
EXTENDS Integers

MaxU16 == 65535

U16 == 0..MaxU16

AsU16(n) == n % (MaxU16 + 1)

\* WorkerPool::new does not panic.
Accepts(base, count, top) ==
  IF count > 0
  THEN /\ base + AsU16(count - 1) \in U16         \* checked_add
       /\ base + AsU16(count - 1) <= top
  ELSE base <= top

\* start() gives worker i the port base + i as u16.
PortGiven(base, i) == base + AsU16(i)
=============================================================================
