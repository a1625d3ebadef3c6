------------------------------- MODULE Building -------------------------------
(***************************************************************************)
(* An AssemblyBuilder in use: instructions and labels are added one by one *)
(* and the program is built at any time, with any of some entry points and *)
(* interrupt vectors.  build() changes nothing in the builder, so that     *)
(* adding may go on after it.                                              *)
(***************************************************************************)
EXTENDS Assembly

CONSTANTS
    Pool,           \* the instructions that may be added: I(opcode, operands)
    Names,          \* the names of labels
    EntryPoints,    \* the entry points and ...
    VectorTables,   \* ... the interrupt vectors given to build()
    MaxElements     \* bound on the length of the program

VARIABLES
    listing,    \* what the caller has added so far
    builder,    \* the attributes of the AssemblyBuilder
    built       \* the last call of build() and its outcome, until the next add

\* No instruction of the processor has more than two operands, and the offsets
\* of a code are unsigned words.
ASSUME BuildingAssumption ==
    /\ MaxElements \in Nat /\ 14 * MaxElements <= U32_MAX
    /\ Pool \subseteq [opcode : OpCode, operands : Seq(Operand \cup {Ref(name) : name \in Names})]
    /\ \A i \in Pool : Len(i.operands) <= 2

buildingVars == <<listing, builder, built>>

NotBuilt == [vectors |-> <<>>, image |-> Malformed]

BuildingInit ==
    /\ listing = <<>>
    /\ builder = EmptyBuilder
    /\ built = NotBuilt

AddInstruction ==
    /\ Len(listing) < MaxElements
    /\ \E i \in Pool :
          /\ listing' = Append(listing, i)
          /\ builder' = Add(builder, i.opcode, i.operands)
    /\ built' = NotBuilt

\* A name that is defined already is refused, and changes nothing.
AddLabel ==
    /\ Len(listing) < MaxElements
    /\ \E name \in Names :
          LET labelled == Label(builder, name)
          IN /\ ~labelled.failed
             /\ listing' = Append(listing, Lbl(name))
             /\ builder' = labelled
    /\ built' = NotBuilt

BuildImage ==
    /\ \E entry_point \in EntryPoints, vectors \in VectorTables :
          built' = [vectors |-> vectors, image |-> Build(builder, entry_point, <<>>, vectors)]
    /\ UNCHANGED <<listing, builder>>

BuildingNext == AddInstruction \/ AddLabel \/ BuildImage

BuildingSpec == BuildingInit /\ [][BuildingNext]_buildingVars

-----------------------------------------------------------------------------
(* The built code against the listing, by a linear sweep of the bytes.     *)

IsBuilt == built.image.ok
Code == built.image.code

\* How many instructions precede the k-th element of the listing.
Before(k) == Cardinality({j \in 1 .. (k - 1) : ~IsLabel(listing[j])})

\* The offset of the code at which a sweep meets the k-th element.
At(k) == Sweep(Code)[1 + Before(k)]
Place(name) == At(CHOOSE k \in DOMAIN listing : listing[k] = Lbl(name))

\* An operand as it should come back from the bytes.
Decoded(operand) == IF IsRef(operand) THEN abs(Place(operand.ref)) ELSE operand

\* A linear sweep of the code, as the disassembler does it, finds the
\* instructions in the order they were added, each with its operands, and
\* ends at the end; a reference to a label has become the offset at which the
\* sweep meets what follows the label, forward references and several in one
\* instruction included (assembly.py:40-87, binary.py:72-152).
BuildsTheListing ==
    IsBuilt =>
        /\ Len(Sweep(Code)) = 1 + Before(Len(listing) + 1)
        /\ Last(Sweep(Code)) = Len(Code)
        /\ \A k \in {j \in DOMAIN listing : ~IsLabel(listing[j])} :
              decode_instruction(Code, At(k)).instr =
                  Instruction(listing[k].opcode,
                              [p \in DOMAIN listing[k].operands |-> Decoded(listing[k].operands[p])])

\* An interrupt vector given by name is the offset of its handler
\* (assembly.py:59-68).
VectorsAreHandlers ==
    IsBuilt =>
        \A i \in DOMAIN built.vectors :
            built.image.interrupt_vectors[i] =
                IF IsRef(built.vectors[i]) THEN Place(built.vectors[i].ref)
                ELSE built.vectors[i].value
=============================================================================
