-------------------------------- MODULE Disasm --------------------------------
(***************************************************************************)
(* The disassembler (src/lab4/disasm.py): what the listing of an image     *)
(* says.  A line is a record of its columns; how they are written, the     *)
(* mnemonic of an instruction included, is left out.                       *)
(***************************************************************************)
EXTENDS Binary

\* Variant: the offset is taken after the instruction was decoded.
CodeLinesAfter(code) ==
    LET offsets == Sweep(code)
    IN [k \in 1 .. (Len(offsets) - 1) |->
            [address |-> offsets[k + 1],
             raw |-> SubSeq(code, offsets[k] + 1, offsets[k + 1]),
             instruction |-> decode_instruction(code, offsets[k]).instr]]
\* disassemble_code: a line for each instruction of decode_program.
CodeLines(code) ==
    LET offsets == Sweep(code)
    IN [k \in 1 .. (Len(offsets) - 1) |->
            [address |-> offsets[k],
             raw |-> SubSeq(code, offsets[k] + 1, offsets[k + 1]),
             instruction |-> decode_instruction(code, offsets[k]).instr]]

\* disassemble_image: ValueError if the code does not decode to its end.
disassemble_image(im) ==
    IF Last(Sweep(im.code)) # Len(im.code) THEN Malformed
    ELSE [ok |-> TRUE,
          entry |-> im.entry_point,
          code |-> CodeLines(im.code),
          data |-> [i \in DOMAIN im.data |->
                       [index |-> i - 1, hex |-> to_u32(im.data[i]), word |-> im.data[i]]],
          vectors |-> [i \in DOMAIN im.interrupt_vectors |->
                          [index |-> i - 1, address |-> im.interrupt_vectors[i]]]]
=============================================================================
