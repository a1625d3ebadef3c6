------------------------------- MODULE Assembly -------------------------------
(***************************************************************************)
(* AssemblyBuilder (src/lab4/assembly.py): a list of instructions and      *)
(* labels, with references to labels patched when the image is built.      *)
(*                                                                         *)
(* An element is [label |-> name] or [instr |-> instruction]; an operand   *)
(* given to add() as a string is Ref(name) here.                           *)
(***************************************************************************)
EXTENDS Binary

Ref(name) == [ref |-> name]
IsRef(operand) == DOMAIN operand = {"ref"}
IsLabel(element) == DOMAIN element = {"label"}

\* failed: label() has raised ValueError.
EmptyBuilder == [elements |-> <<>>, refs |-> <<>>, failed |-> FALSE]

\* The instructions among the elements, in their order.
InstructionsOf(elements) ==
    LET found[k \in 0 .. Len(elements)] ==
            IF k = 0 THEN <<>>
            ELSE IF IsLabel(elements[k]) THEN found[k - 1]
            ELSE Append(found[k - 1], elements[k])
    IN found[Len(elements)]
HowMany(elements) == Cardinality({k \in DOMAIN elements : ~IsLabel(elements[k])})
LabelsOf(elements) == {elements[i].label : i \in {j \in DOMAIN elements : IsLabel(elements[j])}}

\* The operands with a placeholder for each label.
Placed(operands) == [k \in DOMAIN operands |-> IF IsRef(operands[k]) THEN abs(0) ELSE operands[k]]

\* The labels among the operands of the index-th instruction, and their places.
RefsOf(index, operands) ==
    LET refs[k \in 0 .. Len(operands)] ==
            IF k = 0 THEN <<>>
            ELSE IF IsRef(operands[k])
              THEN Append(refs[k - 1], [instr |-> index, operand |-> k, label |-> operands[k].ref])
            ELSE refs[k - 1]
    IN refs[Len(operands)]

\* Variant: the instructions are counted together with the labels.
AddCountsLabels(b, opcode, operands) ==
    [b EXCEPT !.elements = Append(@, [instr |-> Instruction(opcode, Placed(operands))]),
              !.refs = @ \o RefsOf(Len(b.elements) + 1, operands)]
\* add: a label operand becomes the placeholder abs(0) and is remembered
\* with the index of its instruction and of its place in it.
Add(b, opcode, operands) ==
    [b EXCEPT !.elements = Append(@, [instr |-> Instruction(opcode, Placed(operands))]),
              !.refs = @ \o RefsOf(HowMany(b.elements) + 1, operands)]

\* label: raises on a name that is already defined.
Label(b, name) ==
    IF name \in LabelsOf(b.elements) THEN [b EXCEPT !.failed = TRUE]
    ELSE [b EXCEPT !.elements = Append(@, [label |-> name])]

\* A listing is a sequence of Lbl(name)s and I(opcode, operands)s, added in turn.
Lbl(name) == [label |-> name]
I(opcode, operands) == [opcode |-> opcode, operands |-> operands]
Extend(builder, listing) ==
    FoldLeft(LAMBDA b, e : IF b.failed THEN b
                           ELSE IF IsLabel(e) THEN Label(b, e.label)
                           ELSE Add(b, e.opcode, e.operands),
             builder, listing)
Assemble(listing) == Extend(EmptyBuilder, listing)

-----------------------------------------------------------------------------
(* build().                                                                *)

\* Variant: the bytes of the opcode and of the operand count are forgotten.
ElementOffsetOfOperands(elements, entry_point) ==
    LET offset[k \in 1 .. (Len(elements) + 1)] ==
            IF k = 1 THEN entry_point
            ELSE offset[k - 1] + IF IsLabel(elements[k - 1]) THEN 0
                                 ELSE Len(encode_instruction(elements[k - 1].instr)) - 2
    IN offset

\* The offset of each element: the first pass counts from entry_point.
ElementOffset(elements, entry_point) ==
    LET offset[k \in 1 .. (Len(elements) + 1)] ==
            IF k = 1 THEN entry_point
            ELSE offset[k - 1] + IF IsLabel(elements[k - 1]) THEN 0
                                 ELSE Len(encode_instruction(elements[k - 1].instr))
    IN offset

LabelOffsets(elements, entry_point) ==
    LET offset == ElementOffset(elements, entry_point)
    IN [name \in LabelsOf(elements) |->
            offset[CHOOSE k \in DOMAIN elements : elements[k] = [label |-> name]]]

\* Vectors are offsets or Ref(name)s.
Defined(b, vectors) ==
    LET names == {b.refs[i].label : i \in DOMAIN b.refs}
                    \cup {vectors[i].ref : i \in {j \in DOMAIN vectors : IsRef(vectors[j])}}
    IN names \subseteq LabelsOf(b.elements)

\* The instructions with every reference replaced by its label's offset.
Patched(b, labels) ==
    LET code == InstructionsOf(b.elements)
        PatchOf(i, k) == {r \in DOMAIN b.refs : b.refs[r].instr = i /\ b.refs[r].operand = k}
        Operand1(i, k) == IF PatchOf(i, k) = {} THEN code[i].instr.operands[k]
                          ELSE abs(labels[b.refs[CHOOSE r \in PatchOf(i, k) : TRUE].label])
    IN [i \in DOMAIN code |->
            Instruction(code[i].instr.opcode,
                        [k \in DOMAIN code[i].instr.operands |-> Operand1(i, k)])]

\* build: ValueError (Malformed) when a label is missing.
Build(b, entry_point, data, vectors) ==
    IF b.failed \/ ~Defined(b, vectors) THEN Malformed
    ELSE LET labels == LabelOffsets(b.elements, entry_point)
         IN [ok |-> TRUE,
             entry_point |-> entry_point,
             code |-> encode_program(Patched(b, labels)),
             data |-> data,
             interrupt_vectors |->
                 [i \in DOMAIN vectors |-> IF IsRef(vectors[i]) THEN labels[vectors[i].ref]
                                           ELSE vectors[i].value]]

\* The image as the processor sees it.
Loaded(built) ==
    [entry_point |-> built.entry_point, code |-> DecodedCode(built.code), data |-> built.data,
     interrupt_vectors |-> built.interrupt_vectors]
=============================================================================
