------------------------------ MODULE MCSbiDomain ------------------------------
(* An instance of SbiDomain: 128 bytes of address space, three harts.      *)
EXTENDS SbiDomain

Reg(base, order, flags) == [base |-> base, order |-> order, flags |-> flags]
RWX == {"R", "W", "X"}
Dom(possible, regions, bootHart, addr, assign) ==
  [possible |-> possible, regions |-> regions, boot |-> bootHart, next |-> addr, assign |-> assign]

(* The firmware is at the start.  Devices begin on and off tile            *)
(* boundaries; some of their tiles are buddies, one tile is larger than    *)
(* its device, and one device is at the top of the address space.          *)
MCFw == <<0, 6>>
MCRanges == {<<16, 8>>, <<32, 16>>, <<48, 32>>, <<80, 16>>, <<120, 8>>}

(* Device trees: none; domains with a part of the memory, which take the   *)
(* cold boot hart or not; one that opens a device; one whose region of the *)
(* largest order does not begin at 0; and faulty ones.                     *)
Shared == Dom({0, 1}, <<Reg(0, 7, RWX)>>, 1, 24, {1})
Cold2 == Dom({0, 2}, <<Reg(0, 7, RWX), Reg(32, 5, {"R"}), Reg(96, 5, {"R", "M"})>>, 2, 8, {0, 2})
MCFdts ==
  {<< >>, <<Shared, Cold2>>,
   <<Dom({0}, <<Reg(64, 6, {"R", "X"}), Reg(0, 6, RWX), Reg(104, 3, {"M"})>>, None, None, {0})>>,
   <<Dom({0, 1}, <<Reg(8, 3, RWX), Reg(32, 3, {"R", "X"})>>, 7, 8, {0, 2}), Shared>>,
   <<Dom({1}, <<Reg(8, 4, RWX), Reg(8, 3, RWX)>>, 1, 8, {1})>>,
   <<Dom({1}, <<Reg(64, 5, RWX), Reg(8, 3, RWX), Reg(64, 5, RWX)>>, 1, 8, {1})>>,
   <<Dom({1}, <<Reg(0, 7, RWX), Reg(0, 7, RWX)>>, 1, 8, {1})>>,
   <<Dom({1}, <<Reg(0, 5, RWX), Reg(64, 7, {"R", "X"}), Reg(96, 4, RWX)>>, 1, 8, {1})>>,
   <<Dom({1, 3}, <<Reg(8, 3, RWX)>>, 1, 8, {1})>>,
   <<Dom({1}, <<Reg(8, 3, RWX)>>, 1, 8, None)>>}
=============================================================================
