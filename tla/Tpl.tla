--------------------------------- MODULE Tpl ---------------------------------
(***************************************************************************)
(* tpl.c for the formats the program maps: fixed-length fields `c#', each  *)
(* `c' with at most one `#', and one level of arrays A(...) of them; native *)
(* byte order, images in memory, a map used for packing or for one load.   *)
(* A tpl map is a value tn; an image is [cells, sz]: what was written, and *)
(* how many bytes the reader is told it has.  A cell [w, v] is w bytes     *)
(* that are written and read together.                                     *)
(*                                                                         *)
(* A C variable that a field is mapped to is a name, the memory of the     *)
(* client a function `mem' from these names to values.                     *)
(***************************************************************************)
EXTENDS Integers, SequencesExt

Cell(w, v) == [w |-> w, v |-> v]

(* The bytes of the first n cells.                                         *)
Offsets(cells) ==
  LET sum[n \in 0..Len(cells)] == IF n = 0 THEN 0 ELSE sum[n - 1] + cells[n].w
  IN sum

Bytes(cells) == Offsets(cells)[Len(cells)]

Magic == "tpl"     \* and the flags byte: no flag is set
WordSize == 4      \* sizeof(uint32_t), and of magic and flags

------------------------------------------------------------------------------
(* tpl_map.                                                                *)

(* tpl_node_new, for the two types of node.                                *)
Atom(addr) == [type |-> "c", num |-> 1, addr |-> addr, data |-> 0]
Ary == [type |-> "A", kids |-> <<>>, sz |-> 0, num |-> 0, bb |-> <<>>,
        ser_osz |-> 0, cur |-> 0]

(* Where the next node goes: the root's children, or those of its last A.  *)
Siblings(m) == IF m.inside THEN Last(m.kids).kids ELSE m.kids

WithSiblings(m, s, grown) ==
  LET a == [Last(m.kids) EXCEPT !.kids = s, !.sz = @ + grown]
  IN IF m.inside THEN [m EXCEPT !.kids[Len(m.kids)] = a] ELSE [m EXCEPT !.kids = s]

Failed(m) == [m EXCEPT !.ok = FALSE]

MapAtom(m) ==
  IF m.expect THEN Failed(m)
  ELSE [WithSiblings(m, Append(Siblings(m), Atom(Head(m.args))), 1)
          EXCEPT !.args = Tail(@)]

(* The field just mapped is n long, and the preamble has room for n.       *)
Pounded(m, s, n) ==
  [WithSiblings(m, [s EXCEPT ![Len(s)].num = n], n - 1)
     EXCEPT !.fxlens = Append(@, n), !.ser_osz = @ + WordSize]

MapPound(m) ==
  LET s == Siblings(m)
      n == Head(m.args)
  IN IF s = <<>> \/ Last(s).type # "c" THEN Failed(m)
     ELSE [Pounded(m, s, n) EXCEPT !.args = Tail(@)]

MapAry(m) ==
  [m EXCEPT !.kids = Append(@, Ary), !.inside = TRUE, !.expect = TRUE]

MapOpen(m) ==
  IF m.expect THEN [m EXCEPT !.expect = FALSE, !.level = @ + 1] ELSE Failed(m)

MapClose(m) ==
  IF m.level = 0 \/ Siblings(m) = <<>> THEN Failed(m)
  ELSE [m EXCEPT !.level = @ - 1, !.inside = FALSE]

MapToken(m, t) ==
  CASE ~m.ok   -> m
    [] t = "c" -> MapAtom(m)
    [] t = "#" -> MapPound(m)
    [] t = "A" -> MapAry(m)
    [] t = "(" -> MapOpen(m)
    [] t = ")" -> MapClose(m)

(* fmt is a sequence of characters, args what follows it in the call.      *)
MapSteps(fmt, args) ==
  LET m[n \in 0..Len(fmt)] ==
        IF n = 0
        THEN [ok |-> TRUE, kids |-> <<>>, inside |-> FALSE, expect |-> FALSE,
              level |-> 0, args |-> args, fxlens |-> <<>>,
              ser_osz |-> WordSize + Len(fmt) + 1 + WordSize]
        ELSE MapToken(m[n - 1], fmt[n])
  IN m

Map(fmt, args) ==
  LET m == MapSteps(fmt, args)[Len(fmt)]
  IN [ok |-> m.ok /\ m.level = 0, fmt |-> fmt, fxlens |-> m.fxlens,
      ser_osz |-> m.ser_osz, kids |-> m.kids, flags |-> {}]

(* tpl_find_i for i > 0: the place of the i-th A among the root's nodes.   *)
FindA(tn, i) ==
  LET arrays == {k \in DOMAIN tn.kids : tn.kids[k].type = "A"}
  IN CHOOSE k \in arrays : Cardinality({j \in arrays : j <= k}) = i

------------------------------------------------------------------------------
(* tpl_pack and tpl_dump.                                                  *)

Packed(atom, mem) ==
  IF atom.type = "c" THEN [atom EXCEPT !.data = mem[atom.addr]] ELSE atom

PackRoot(tn, mem) ==
  [tn EXCEPT !.flags = @ \cup {"WRONLY"},
             !.kids = [k \in DOMAIN @ |-> Packed(@[k], mem)]]

(* tpl_extend_backbone: a new element at the end of the array.             *)
ExtendBackbone(a, datum) == [a EXCEPT !.bb = Append(@, datum), !.num = @ + 1]

PackA(tn, i, mem) ==
  LET k == FindA(tn, i)
      kids == [j \in DOMAIN tn.kids[k].kids |-> Packed(tn.kids[k].kids[j], mem)]
      datum == [j \in DOMAIN kids |-> Cell(kids[j].num, kids[j].data)]
      a == [ExtendBackbone(tn.kids[k], datum) EXCEPT
              !.kids = kids, !.ser_osz = @ + Bytes(datum)]
  IN [tn EXCEPT !.flags = @ \cup {"WRONLY"}, !.kids[k] = a]

(* A mutant: no room for the length of an array.                           *)
KidOszNoLength(c) == IF c.type = "c" THEN c.num ELSE c.ser_osz

KidOsz(c) == IF c.type = "c" THEN c.num ELSE WordSize + c.ser_osz

SerOsz(tn) ==
  tn.ser_osz +
  SumFunctionOnSet([k \in DOMAIN tn.kids |-> KidOsz(tn.kids[k])], DOMAIN tn.kids)

DumpAtyp(a) == <<Cell(WordSize, a.num)>> \o FlattenSeq(a.bb)

Header(tn, sz) ==
  <<Cell(WordSize, Magic), Cell(WordSize, sz), Cell(Len(tn.fmt) + 1, tn.fmt)>>
    \o [i \in DOMAIN tn.fxlens |-> Cell(WordSize, tn.fxlens[i])]

DumpToMem(tn, sz) ==
  Header(tn, sz) \o
  FlattenSeq([k \in DOMAIN tn.kids |->
    IF tn.kids[k].type = "c" THEN <<Cell(tn.kids[k].num, tn.kids[k].data)>>
                             ELSE DumpAtyp(tn.kids[k])])

(* TPL_MEM: sz is the size of the buffer allocated, cells what is written. *)
Dumped(tn) == [rc |-> 0, sz |-> SerOsz(tn), cells |-> DumpToMem(tn, SerOsz(tn))]

Dump(tn) == IF "RDONLY" \in tn.flags THEN [rc |-> -1] ELSE Dumped(tn)

------------------------------------------------------------------------------
(* tpl_load.  A position dv is the number of cells read.                   *)

Offset(image, dv) == Offsets(image.cells)[dv]
Past(image, dv) == dv > Len(image.cells) \/ Offset(image, dv) > image.sz

(* n fixed-length fields: the bytes of each must end within the buffer.    *)
SerlenAtoms(image, st, n) ==
  IF st.ok /\ \A i \in 1..n : ~Past(image, st.dv + i) THEN [st EXCEPT !.dv = @ + n]
  ELSE [st EXCEPT !.ok = FALSE]

(* The length of an array has been read.                                   *)
SerlenElements(image, a, st) ==
  IF st.ok THEN SerlenAtoms(image, st, image.cells[st.dv].v * Len(a.kids)) ELSE st

SerlenKid(image, c, st) ==
  IF c.type = "c" THEN SerlenAtoms(image, st, 1)
                  ELSE SerlenElements(image, c, SerlenAtoms(image, st, 1))

(* The data from cell dv on, as far as the buffer allows: where it ends    *)
(* after n of the nodes.                                                   *)
Serlen(image, kids, dv) ==
  LET after[n \in 0..Len(kids)] ==
        IF n = 0 THEN [ok |-> TRUE, dv |-> dv]
        ELSE SerlenKid(image, kids[n], after[n - 1])
  IN after

(* tpl_find_data_start: after magic, length, format and the # lengths.     *)
DataStart(tn) == 3 + Len(tn.fxlens)

(* A mutant: TPL_EXCESS_OK for every load.                                 *)
AnySize(image) == TRUE

(* The length word against the size of the buffer.                         *)
SizesAgree(image) == image.cells[2].v = image.sz

(* tpl_sanity, in the order of its checks.                                 *)
Sanity(tn, image) ==
  LET data == Serlen(image, tn.kids, DataStart(tn))[Len(tn.kids)]
  IN CASE image.sz < WordSize + WordSize + 1 -> "ERR_NOT_MINSIZE"
       [] image.cells[1].v # Magic -> "ERR_MAGIC_MISMATCH"
       [] ~SizesAgree(image) -> "ERR_INCONSISTENT_SZ"
       [] Past(image, 3) -> "ERR_FMT_MISSING_NUL"
       [] image.cells[3].v # tn.fmt -> "ERR_FMT_MISMATCH"
       [] Past(image, DataStart(tn)) -> "ERR_INCONSISTENT_SZ4"
       [] \E i \in DOMAIN tn.fxlens : image.cells[3 + i].v # tn.fxlens[i]
            -> "ERR_FLEN_MISMATCH"
       [] ~data.ok -> "ERR_INCONSISTENT_SZ2"
       [] Offset(image, data.dv) # image.sz -> "ERR_INCONSISTENT_SZ3"
       [] OTHER -> "ok"

(* Where the children before the k-th end.                                 *)
KidStart(tn, image, k) == Serlen(image, tn.kids, DataStart(tn))[k - 1].dv

(* Ready an A node for reading: its length word, its first element.        *)
Rewound(tn, image) ==
  [tn EXCEPT !.kids = [k \in DOMAIN @ |->
     IF @[k].type = "c" THEN @[k]
     ELSE LET dv == KidStart(tn, image, k)
          IN [@[k] EXCEPT !.num = image.cells[dv + 1].v, !.cur = dv + 1]]]

Load(tn, image) ==
  IF Sanity(tn, image) # "ok" THEN [rc |-> -1, tn |-> tn]
  ELSE [rc |-> 0,
        tn |-> Rewound([tn EXCEPT !.flags = {"RDONLY"}], image)]

------------------------------------------------------------------------------
(* tpl_unpack: the memory of the client afterwards, the map, the result.   *)

Stored(mem, atoms, cells) ==
  [x \in DOMAIN mem |->
     IF \E j \in DOMAIN atoms : atoms[j].type = "c" /\ atoms[j].addr = x
     THEN cells[CHOOSE j \in DOMAIN atoms : atoms[j].type = "c" /\ atoms[j].addr = x].v
     ELSE mem[x]]

UnpackRoot(tn, image, mem) ==
  [rc |-> 1, tn |-> Rewound(tn, image),
   mem |-> Stored(mem, tn.kids,
             [k \in DOMAIN tn.kids |-> image.cells[KidStart(tn, image, k) + 1]])]

(* A mutant: `cur' stays at the first element.                             *)
UnpackAgain(tn, i, image, mem) ==
  LET k == FindA(tn, i)
      a == tn.kids[k]
  IN IF a.num <= 0 THEN [rc |-> 0, tn |-> tn, mem |-> mem]
     ELSE [rc |-> a.num, tn |-> [tn EXCEPT !.kids[k].num = @ - 1],
           mem |-> Stored(mem, a.kids,
                          SubSeq(image.cells, a.cur + 1, a.cur + Len(a.kids)))]

UnpackA(tn, i, image, mem) ==
  LET k == FindA(tn, i)
      a == tn.kids[k]
      n == Len(a.kids)
      rest == [a EXCEPT !.num = @ - 1, !.cur = @ + n]
  IN IF a.num <= 0 THEN [rc |-> 0, tn |-> tn, mem |-> mem]
     ELSE [rc |-> a.num, tn |-> [tn EXCEPT !.kids[k] = rest],
           mem |-> Stored(mem, a.kids, SubSeq(image.cells, a.cur + 1, a.cur + n))]
==============================================================================
