---------------------------- MODULE DeviceTree ----------------------------
(***************************************************************************)
(* core/dtd.c: get_total_ram and get_drive_info, which walk the token      *)
(* stream of the device tree, one token a step.  The stream is a sequence  *)
(* of 32-bit words; a name or a string offset is one word.  Some values of *)
(* properties look like tokens.                                            *)
(***************************************************************************)
EXTENDS Naturals, Sequences, SequencesExt

CONSTANTS Cell,      \* values of a word, 2^32
          Nodes,     \* most nodes below the root
          Addresses, \* of the virtio transports
          Before     \* what the page of drive_info held before boot

ASSUME DeviceTreeAssumption ==
    /\ Cell \in Nat \ {0} /\ Nodes \in Nat
    /\ Addresses \subseteq Nat /\ Before \in Nat

VARIABLES tree,      \* the nodes below the root; Unread once nobody reads them again
          reader,    \* the function that reads: "ram", "drive", then "done"
          p,         \* the word it reads next
          inside,    \* inside_memory_node, inside_virtio
          total_ram, \* what get_total_ram returned
          info       \* result[0], result[1] and result[2..4] of get_drive_info

tvars == <<tree, reader, p, inside, total_ram, info>>

BEGIN_NODE == 1
END_NODE   == 2
PROP       == 3
NOP        == 4
END        == 9

\* Names, told apart as the code does: "me...y" and "vir".
Root == 0   Memory == 101   Virtio == 102   Other == 103
\* Strings: "r.g", "int" and the others.
Reg == 201   Interrupts == 202   Compatible == 203

\* The trees of the machine. A property is its string, its length in bytes and
\* its words. A memory node may have two banks.
Property(name, len, words) == [name |-> name, len |-> len, words |-> words]

Irq   == Property(Interrupts, 12, <<1, 9, 4>>)
Text  == Property(Compatible, 6, <<1, 9>>)
NoReg == Property(Reg, 0, << >>)
Banks == {Property(Reg, 16, <<0, 4, 1, 2>>),
          Property(Reg, 32, <<0, 4, 0, 3, 1, 0, 2, 1>>)}
Regs  == {Property(Reg, 16, <<a \div Cell, a % Cell, 0, 2>>) : a \in Addresses}

PropLists(regs) ==
    {<< >>, <<Text>>, <<NoReg, Text>>}
        \cup UNION {{<<r>>, <<Irq, r, Text>>, <<Text, r>>, <<r, Irq>>} : r \in regs}

NodeSet == [name : {Memory}, props : PropLists(Banks)]
              \cup [name : {Virtio, Other}, props : PropLists(Regs)]

PropWords(q) == <<PROP, q.len, q.name>> \o q.words
NodeWords(n) == <<BEGIN_NODE, n.name>>
                    \o FlattenSeq([i \in DOMAIN n.props |-> PropWords(n.props[i])])
                    \o <<END_NODE>>

dt_struct ==
    <<BEGIN_NODE, Root>> \o PropWords(Text)
        \o FlattenSeq([i \in DOMAIN tree |-> NodeWords(tree[i])])
        \o <<NOP, END_NODE, END>>

Unread == << <<>> >>

-----------------------------------------------------------------------------
\* drive_info lies in a page nobody cleared.
TreeInit ==
    /\ tree \in UNION {[1 .. n -> NodeSet] : n \in 0 .. Nodes}
    /\ reader = "ram"
    /\ p = 1
    /\ inside = FALSE
    /\ total_ram = 0
    /\ info = [address |-> Before, size |-> Before, irq |-> <<Before, Before, Before>>]

At(r, token) == reader = r /\ dt_struct[p] = token

\* The words of the property the reader is at, and two words as a value.
PropLen    == dt_struct[p + 1]
PropName   == dt_struct[p + 2]
PropWord(i) == dt_struct[p + 2 + i]
Value(i) == PropWord(i) * Cell + PropWord(i + 1)

Return(next) == reader' = next /\ p' = 1 /\ inside' = FALSE

Begin(name) ==
    /\ inside' = (dt_struct[p + 1] = name)
    /\ p' = p + 2
    /\ UNCHANGED <<tree, reader, total_ram, info>>

\* Without the padding to a whole word.
SkipProp_NoPadding ==
    /\ p' = p + 3 + PropLen \div 4
    /\ UNCHANGED <<tree, reader, inside, total_ram>>

SkipProp ==
    /\ p' = p + 3 + (PropLen + 3) \div 4
    /\ UNCHANGED <<tree, reader, inside, total_ram>>

EndNode ==
    /\ inside' = FALSE
    /\ p' = p + 1
    /\ UNCHANGED <<tree, reader, total_ram, info>>

Nop ==
    /\ p' = p + 1
    /\ UNCHANGED <<tree, reader, inside, total_ram, info>>

\* get_total_ram: the first reg of a memory node ends it, with the sum of the
\* sizes of its banks.
RamReg ==
    /\ At("ram", PROP) /\ inside /\ PropName = Reg
    /\ total_ram' = FoldLeft(LAMBDA sum, i : sum + Value(4 * i - 1), 0,
                             [i \in 1 .. PropLen \div 16 |-> i])
    /\ Return("drive")
    /\ UNCHANGED <<tree, info>>

\* total is set to 0 with every token.
RamEnd ==
    /\ reader = "ram" /\ dt_struct[p] \notin {BEGIN_NODE, PROP, END_NODE, NOP}
    /\ total_ram' = 0
    /\ Return("drive")
    /\ UNCHANGED <<tree, info>>

GetTotalRam ==
    \/ At("ram", BEGIN_NODE) /\ Begin(Memory)
    \/ RamReg
    \/ At("ram", PROP) /\ ~(inside /\ PropName = Reg) /\ SkipProp /\ UNCHANGED info
    \/ At("ram", END_NODE) /\ EndNode
    \/ At("ram", NOP) /\ Nop
    \/ RamEnd

\* An empty reg is taken too.
DriveReg_Empty ==
    /\ At("drive", PROP) /\ inside /\ PropName = Reg
    /\ info' = [info EXCEPT !.address = Value(1), !.size = Value(3)]
    /\ Return("done")
    /\ UNCHANGED <<tree, total_ram>>

\* get_drive_info: the first reg of a virtio node ends it, unless it is empty.
DriveReg ==
    /\ At("drive", PROP) /\ inside /\ PropName = Reg /\ PropLen > 0
    /\ info' = [info EXCEPT !.address = Value(1), !.size = Value(3)]
    /\ Return("done")
    /\ UNCHANGED <<tree, total_ram>>

DriveProp ==
    /\ At("drive", PROP) /\ ~(inside /\ PropName = Reg /\ PropLen > 0)
    /\ SkipProp
    /\ info' = IF inside /\ PropName = Interrupts /\ PropLen > 0
               THEN [info EXCEPT !.irq = <<PropWord(1), PropWord(2), PropWord(3)>>]
               ELSE info

\* Nothing found: result keeps what was there.
DriveEnd ==
    /\ At("drive", END)
    /\ Return("done")
    /\ UNCHANGED <<tree, total_ram, info>>

\* After a token it does not know, the next word is passed over too.
DriveSkip ==
    /\ reader = "drive" /\ dt_struct[p] \notin {BEGIN_NODE, PROP, END_NODE, END}
    /\ p' = p + (IF dt_struct[p] = NOP THEN 1 ELSE 2)
    /\ UNCHANGED <<tree, reader, inside, total_ram, info>>

GetDriveInfo ==
    \/ At("drive", BEGIN_NODE) /\ Begin(Virtio)
    \/ DriveReg
    \/ DriveProp
    \/ At("drive", END_NODE) /\ EndNode
    \/ DriveSkip
    \/ DriveEnd

TreeNext == GetTotalRam \/ GetDriveInfo

-----------------------------------------------------------------------------
\* The first of the regs, from `least' bytes on, of the nodes of a name, in the
\* order of the tree: it is property j of node k.
IsReg(name, least, k, j) ==
    LET q == tree[k].props[j]
    IN  tree[k].name = name /\ q.name = Reg /\ q.len >= least

Passed(name, least, k, j) ==
    \A m \in DOMAIN tree : \A n \in DOMAIN tree[m].props :
        m < k \/ (m = k /\ n < j) => ~IsReg(name, least, m, n)

IsFirst(name, least, k, j) == IsReg(name, least, k, j) /\ Passed(name, least, k, j)

HasNone(name, least) ==
    \A k \in DOMAIN tree : \A j \in DOMAIN tree[k].props : ~IsReg(name, least, k, j)

\* RAM is the memory of the first reg of a memory node, all its banks, and 0
\* when no memory node has one: no value of a property was taken for a token,
\* and no reg of another node for that of a memory node.
RamIsMemory ==
    reader # "ram" /\ tree # Unread =>
        \/ HasNone(Memory, 0) /\ total_ram = 0
        \/ \E k \in DOMAIN tree : \E j \in DOMAIN tree[k].props :
               /\ IsFirst(Memory, 0, k, j)
               /\ LET reg == tree[k].props[j]
                  IN  total_ram =
                         FoldLeft(LAMBDA sum, i : sum + (reg.words[4 * i - 1] * Cell
                                                          + reg.words[4 * i]),
                                  0, [i \in 1 .. reg.len \div 16 |-> i])

\* The drive's registers are those of the first virtio node that has any, and
\* what was in memory when there is none.
DriveIsFirstTransport ==
    reader = "done" /\ tree # Unread =>
        \/ HasNone(Virtio, 1) /\ info.address = Before
        \/ \E k \in DOMAIN tree : \E j \in DOMAIN tree[k].props :
               /\ IsFirst(Virtio, 1, k, j)
               /\ LET reg == tree[k].props[j]
                  IN  info.address = reg.words[1] * Cell + reg.words[2]
=============================================================================
