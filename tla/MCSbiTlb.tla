------------------------------- MODULE MCSbiTlb -------------------------------
(* Instances of SbiTlb: eight pages, ranges of more than two of which are  *)
(* widened to everything, and at most three harts.                         *)
EXTENDS SbiTlb, TLC

Op(fn, start, size) == [fn |-> fn, start |-> start, size |-> size, asid |-> 1, vmid |-> 1]
Asid2(q) == [q EXCEPT !.asid = 2]
Sfence(start, size) == Op("sfence_vma", start, size)
SfenceAsid(start, size) == Op("sfence_vma_asid", start, size)

(* Nobody sends S-mode interrupts; hart 2 does.                            *)
MCQuiet == [h \in Harts |-> {}]
MCIpis == [h \in Harts |-> IF h = 2 THEN {{1}} ELSE {}]

(* All kinds of fence, with ranges that cover one another, on harts that   *)
(* ask each other: two ask the third one, which asks one of them and       *)
(* itself.                                                                 *)
MCKinds ==
  (0 :> {<<SfenceAsid(1, 1), {2}>>, <<Op("hfence_vvma_asid", 0, 0), {2}>>,
         <<Op("fence_i", 0, 0), {1, 2}>>})
    @@ (1 :> {<<SfenceAsid(0, 5), {2}>>, <<Asid2(SfenceAsid(1, 1)), {2}>>,
              <<Op("hfence_gvma_vmid", 0, 7), {2}>>})
    @@ (2 :> {<<Op("hfence_vvma", 3, 1), {2}>>, <<Op("hfence_gvma", 1, 2), {0}>>})

(* Two harts ask each other, and a third one asks one of them for more or  *)
(* for something else.                                                     *)
MCTriple ==
  (0 :> {<<Sfence(1, 1), {1}>>}) @@ (1 :> {<<Sfence(1, 2), {0, 1}>>})
    @@ (2 :> {<<Sfence(1, 2), {1}>>, <<Sfence(2, 1), {1}>>})

(* A hart that may be stopped, and is started again by the others, is      *)
(* asked by both of them; one also asks itself.                            *)
MCAside ==
  (0 :> {<<Sfence(1, 1), {1}>>}) @@ (1 :> {}) @@ (2 :> {<<Sfence(1, 2), {1, 2}>>})

(* A torn fifo: empty again, or with an entry that nobody sent so.         *)
MCDebris == {<< >>, <<TlbInfo(Sfence(3, 1), 0)>>}

(* What is proved of the merging of fences is about requests like these.   *)
ASSUME MCMergeable == MergeableAsks
=============================================================================
