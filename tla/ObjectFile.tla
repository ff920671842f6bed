------------------------------ MODULE ObjectFile ------------------------------
(***************************************************************************)
(* The bytes of an object file.  The compiler writes them (getBytes, emit, *)
(* emit_jump); two executors, the disassembler and the trace of cnex each  *)
(* know the layout of the tables and of all 96 instructions by themselves. *)
(* Nothing in the file says how long an instruction is: a reader that      *)
(* expects other operands is lost from there on.                           *)
(*                                                                         *)
(* What a string, a global, a module or a function is called is left out:  *)
(* its index into a table is any number.  Readers are given what getBytes  *)
(* wrote, so their checks of signature, version and length are left out.   *)
(* Addresses are bytes, from 0; a sequence of bytes is read from 1.        *)
(***************************************************************************)
EXTENDS Emitter

(* A number in groups of seven bits, all but the last with the high bit.   *)
put_vint(x) ==
  LET groups == CHOOSE g \in 1..5 : x < 128^g /\ (g > 1 => x >= 128^(g - 1))
      group(k) == (x \div 128^(groups - k)) % 128
  IN  [k \in 1..groups |-> IF k = groups THEN group(k) ELSE 128 + group(k)]

padded_vint(x, width) == [k \in 1..(width - Len(put_vint(x))) |-> 128] \o put_vint(x)

(* A reader returns what it read and where it goes on.  get_vint refuses a *)
(* number whose high bits it would lose.                                   *)
Read(value, next) == [value |-> value, next |-> next]
TooLarge == -1
MaxBeforeShift == 2^25 - 1    \* UINT_MAX >> 7

get_vint(bytes, i) ==
  LET last == CHOOSE j \in i..Len(bytes) : bytes[j] < 128 /\ \A k \in i..(j - 1) : bytes[k] >= 128
      Shift(r, b) == IF r > MaxBeforeShift \/ r = TooLarge THEN TooLarge ELSE (r * 128) + (b % 128)
      value[j \in (i - 1)..last] == IF j < i THEN 0 ELSE Shift(value[j - 1], bytes[j])
  IN  Read(value[last], last + 1)

\* What Get, given a place and which it is, reads of each of n items, one after another.
ReadEach(n, start, Get(_, _)) ==
  LET Add(r, x) == Read(Append(r.value, x.value), x.next)
      Then(r, k) == Add(r, Get(r.next, k))
      read[k \in 0..n] == IF k = 0 THEN Read(<<>>, start) ELSE Then(read[k - 1], k)
  IN  read[n]

-----------------------------------------------------------------------------
(* Instructions.                                                           *)

Opcode ==
  <<"PUSHB", "PUSHN", "PUSHS", "PUSHY", "PUSHPG", "PUSHPPG", "PUSHPMG", "PUSHPL", "PUSHPOL",
    "PUSHI", "LOADB", "LOADN", "LOADS", "LOADY", "LOADA", "LOADD", "LOADP", "LOADJ",
    "STOREB", "STOREN", "STORES", "STOREY", "STOREA", "STORED", "STOREP", "STOREJ",
    "NEGN", "ADDN", "SUBN", "MULN", "DIVN", "MODN", "EXPN", "EQB", "NEB",
    "EQN", "NEN", "LTN", "GTN", "LEN", "GEN", "EQS", "NES", "LTS", "GTS", "LES", "GES",
    "EQY", "NEY", "LTY", "GTY", "LEY", "GEY", "EQA", "NEA", "EQD", "NED", "EQP", "NEP",
    "ANDB", "ORB", "NOTB", "INDEXAR", "INDEXAW", "INDEXAV", "INDEXAN",
    "INDEXDR", "INDEXDW", "INDEXDV", "INA", "IND", "CALLP", "CALLF", "CALLMF", "CALLI",
    "JUMP", "JF", "JT", "DUP", "DUPX1", "DROP", "RET", "CONSA", "CONSD", "EXCEPT", "ALLOC",
    "PUSHNIL", "PUSHPEG", "JUMPTBL", "CALLX", "SWAP", "DROPN", "PUSHFP", "CALLV", "PUSHCI",
    "PUSHMFP">>

OpcodeNumber == Table([op \in Range(Opcode) |-> (CHOOSE k \in DOMAIN Opcode : Opcode[k] = op) - 1])

(* A table of operands: a byte or a number of vints for each opcode.       *)
Vints(n) == [k \in 1..n |-> "vint"]
Operands(ops, kinds) == [op \in ops |-> kinds]
None(ops)  == Operands(ops, <<>>)
One(ops)   == Operands(ops, Vints(1))
Two(ops)   == Operands(ops, Vints(2))
Three(ops) == Operands(ops, Vints(3))
Immediate(ops) == Operands(ops, <<"byte">>)

(* What the calls of emit and emit_jump in compiler.cpp write.             *)
Emitted ==
  Immediate({"PUSHB"})
    @@ One({"PUSHN", "PUSHS", "PUSHY", "PUSHPG", "PUSHPPG", "PUSHPL", "PUSHI", "CALLP", "CALLF",
            "JUMP", "JF", "JT", "CONSA", "CONSD", "EXCEPT", "ALLOC", "PUSHPEG", "JUMPTBL",
            "DROPN", "PUSHFP", "CALLV", "PUSHCI"})
    @@ Two({"PUSHPMG", "PUSHPOL", "CALLMF", "PUSHMFP"})
    @@ Three({"CALLX"})
    @@ None(Range(Opcode))

(* What the handlers of the executors read, ...                            *)
exec_operands ==
  Immediate({"PUSHB"})
    @@ One({"PUSHN", "PUSHS", "PUSHY", "PUSHPG", "PUSHPPG", "PUSHPL", "PUSHI"})
    @@ Two({"PUSHPMG", "PUSHPOL"})
    @@ One({"CALLP", "CALLF", "CALLV", "JUMP", "JF", "JT", "JUMPTBL", "CONSA", "CONSD", "DROPN"})
    @@ One({"EXCEPT", "ALLOC", "PUSHPEG", "PUSHFP", "PUSHCI"})
    @@ Two({"CALLMF", "PUSHMFP"}) @@ Three({"CALLX"}) @@ None(Range(Opcode))

cnex_operands ==
  Immediate({"PUSHB"})
    @@ One({"PUSHN", "PUSHS", "PUSHY", "PUSHPG", "PUSHPPG", "PUSHPL", "PUSHI"})
    @@ Two({"PUSHPMG", "PUSHPOL"})
    @@ One({"CALLP", "CALLF", "CALLV", "JUMP", "JF", "JT", "JUMPTBL", "CONSA", "CONSD", "DROPN"})
    @@ One({"EXCEPT", "ALLOC", "PUSHPEG", "PUSHFP", "PUSHCI"})
    @@ Two({"CALLMF", "PUSHMFP"}) @@ Three({"CALLX"}) @@ None(Range(Opcode))

(* ... what the disassembler reads, for the opcodes it knows, ...          *)
disasm_pushes ==
  Immediate({"PUSHB"}) @@ One({"PUSHN", "PUSHS", "PUSHY", "PUSHPG", "PUSHPPG", "PUSHPL", "PUSHI"})
    @@ Two({"PUSHPMG", "PUSHPOL"})
disasm_cells == None(LoadOps \cup StoreOps)
disasm_numbers ==
  None({"NEGN", "EQB", "NEB", "EQN", "NEN", "LTN", "GTN", "LEN", "GEN", "EQS", "NES"} \cup ArithOps)
disasm_values ==
  None({"LTS", "GTS", "LES", "GES", "EQY", "NEY", "LTY", "GTY", "LEY", "GEY", "EQA", "NEA",
        "EQD", "NED", "EQP", "NEP", "ANDB", "ORB", "NOTB"})
disasm_containers == None(IndexRefOps \cup IndexValueOps \cup InOps \cup {"INDEXDW"})
disasm_calls ==
  One({"CALLP", "CALLF", "JUMP", "JF", "JT"}) @@ Two({"CALLMF"})
    @@ None({"CALLI", "DUP", "DUPX1", "DROP", "RET"})
disasm_others ==
  One({"CONSA", "CONSD", "EXCEPT", "ALLOC", "PUSHPEG", "JUMPTBL", "DROPN", "PUSHFP", "CALLV", "PUSHCI"})
    @@ Two({"PUSHMFP"}) @@ Three({"CALLX"}) @@ None({"PUSHNIL", "SWAP"})
disassembler ==
  disasm_pushes @@ disasm_cells @@ disasm_numbers @@ disasm_values @@ disasm_containers
    @@ disasm_calls @@ disasm_others

(* ... and cnex when it traces, which does not know PUSHMFP.               *)
cnex_pushes ==
  Immediate({"PUSHB"}) @@ One({"PUSHN", "PUSHS", "PUSHY", "PUSHPG", "PUSHPPG", "PUSHPL", "PUSHI"})
    @@ Two({"PUSHPMG", "PUSHPOL"})
cnex_cells == None(LoadOps \cup StoreOps)
cnex_numbers ==
  None({"NEGN", "EQB", "NEB", "EQN", "NEN", "LTN", "GTN", "LEN", "GEN", "EQS", "NES"} \cup ArithOps)
cnex_values ==
  None({"LTS", "GTS", "LES", "GES", "EQY", "NEY", "LTY", "GTY", "LEY", "GEY", "EQA", "NEA",
        "EQD", "NED", "EQP", "NEP", "ANDB", "ORB", "NOTB"})
cnex_containers == None(IndexRefOps \cup IndexValueOps \cup InOps \cup {"INDEXDW"})
cnex_calls ==
  One({"CALLP", "CALLF", "JUMP", "JF", "JT"}) @@ Two({"CALLMF"})
    @@ None({"CALLI", "DUP", "DUPX1", "DROP", "RET"})
cnex_others ==
  One({"CONSA", "CONSD", "EXCEPT", "ALLOC", "PUSHPEG", "JUMPTBL", "DROPN", "PUSHFP", "CALLV", "PUSHCI"})
    @@ Three({"CALLX"}) @@ None({"PUSHNIL", "SWAP"})
cnex_disassembly ==
  cnex_pushes @@ cnex_cells @@ cnex_numbers @@ cnex_values @@ cnex_containers
    @@ cnex_calls @@ cnex_others

(* The instruction at i as a reader with that table sees it.               *)
Decode(table, bytes, i) ==
  LET op == Opcode[bytes[i] + 1]
      kinds == IF op \in DOMAIN table THEN table[op] ELSE <<>>
      Operand(j, k) == IF kinds[k] = "byte" THEN Read(bytes[j], j + 1) ELSE get_vint(bytes, j)
      Decoded(r) == [op |-> op, operands |-> r.value, next |-> r.next]
  IN  Decoded(ReadEach(Len(kinds), i + 1, Operand))

-----------------------------------------------------------------------------
(***************************************************************************)
(* The code.  What an operand that is not an address stands for is an      *)
(* index or a count.  The target of a backward jump is known and takes as  *)
(* many bytes as it needs; emit_jump reserves five for any other, and      *)
(* jump_target fills them.                                                 *)
(***************************************************************************)
Counted == {"PUSHB", "CONSA", "CONSD", "DROPN", "JUMPTBL"}
Index(i, k) == (97 * i + 64 * k) % 20000

ReservedBytes == 5

TargetBytes_left(at, label, here) ==   \* Mutant: the reserved bytes are filled from the left.
  IF label <= here THEN put_vint(at[label])
  ELSE LET x == put_vint(IF label \in DOMAIN at THEN at[label] ELSE 0)
       IN  x \o [k \in 1..(ReservedBytes - Len(x)) |-> 0]

TargetBytes(at, label, here) ==
  IF label <= here THEN put_vint(at[label])
  ELSE padded_vint(IF label \in DOMAIN at THEN at[label] ELSE 0, ReservedBytes)

(* The values of the operands, with the addresses the instructions are at. *)
Values(code, at, j) ==
  [k \in DOMAIN Emitted[code[j].op] |->
     IF code[j].op \in BranchOps THEN at[code[j].n]
     ELSE IF k = 1 /\ code[j].op \in Counted THEN code[j].n
     ELSE Index(j, k)]

InstructionBytes(code, at, j) ==
  <<OpcodeNumber[code[j].op]>> \o
    (IF code[j].op \in BranchOps THEN TargetBytes(at, code[j].n, j)
     ELSE IF code[j].op = "PUSHB" THEN <<code[j].n>>
     ELSE FlattenSeq([k \in DOMAIN Emitted[code[j].op] |-> put_vint(Values(code, at, j)[k])]))

(* Where each instruction is, and where the code ends.                     *)
Layout(code) ==
  LET lay[j \in 0..Len(code)] ==
        IF j = 0 THEN <<0>>
        ELSE LET at == lay[j - 1] IN Append(at, at[j] + Len(InstructionBytes(code, at, j)))
  IN  lay[Len(code)]

CodeBytes(code, at) == FlattenSeq([j \in DOMAIN code |-> InstructionBytes(code, at, j)])

(* exec_JUMPTBL: entry k of the table that begins at ip.                   *)
TableEntry(ip, k) == ip + 6 * k

(* What the disassembler prints: one instruction after another.            *)
disassemble(code, count) ==
  LET seen[k \in 1..count] == Decode(disassembler, code, IF k = 1 THEN 1 ELSE seen[k - 1].next)
  IN  seen

-----------------------------------------------------------------------------
(***************************************************************************)
(* The tables: what a row of each consists of, in the order of the file.   *)
(* "bytes" is a length and so many bytes, "pairs" and "lists" are counted  *)
(* lists of pairs of numbers and of counted lists of numbers.              *)
(***************************************************************************)
HashBytes == 32
Signature == <<78, 101, 0, 110>>
BYTECODE_VERSION == 3

written ==
  << <<"export_types", Vints(2)>>, <<"export_constants", Vints(2) \o <<"bytes">> >>,
     <<"export_variables", Vints(3)>>, <<"export_functions", Vints(3)>>,
     <<"export_exceptions", Vints(1)>>, <<"export_interfaces", Vints(1) \o <<"pairs">> >>,
     <<"imports", Vints(2) \o <<"hash">> >>, <<"functions", Vints(5)>>,
     <<"exceptions", Vints(5)>>, <<"classes", Vints(1) \o <<"lists">> >> >>

Many(Bytes(_), v) == put_vint(Len(v)) \o FlattenSeq([k \in DOMAIN v |-> Bytes(v[k])])

Item(kind, v) ==
  CASE kind = "vint"  -> put_vint(v)
    [] kind = "bytes" -> put_vint(Len(v)) \o v
    [] kind = "hash"  -> v
    [] kind = "pairs" -> Many(LAMBDA m : put_vint(m[1]) \o put_vint(m[2]), v)
    [] kind = "lists" -> Many(LAMBDA m : Many(put_vint, m), v)

Row(kinds, row) == FlattenSeq([k \in DOMAIN kinds |-> Item(kinds[k], row[k])])

StringTable(strings) ==
  LET flat == FlattenSeq([k \in DOMAIN strings |-> put_vint(Len(strings[k])) \o strings[k]])
  IN  put_vint(Len(flat)) \o flat

getBytes(o) ==
  Signature \o put_vint(BYTECODE_VERSION) \o o.source_hash \o put_vint(o.global_size)
    \o StringTable(o.strtable)
    \o FlattenSeq([k \in DOMAIN written |->
          Many(LAMBDA row : Row(written[k][2], row), o[written[k][1]])])
    \o o.code

(* Bytecode::load expects the same rows; bytecode_loadBytecode too, but it *)
(* copies the hash of an import from the beginning of the file.            *)
load_tables ==
  << <<"export_types", Vints(2)>>, <<"export_constants", Vints(2) \o <<"bytes">> >>,
     <<"export_variables", Vints(3)>>, <<"export_functions", Vints(3)>>,
     <<"export_exceptions", Vints(1)>>, <<"export_interfaces", Vints(1) \o <<"pairs">> >>,
     <<"imports", Vints(2) \o <<"hash">> >>, <<"functions", Vints(5)>>,
     <<"exceptions", Vints(5)>>, <<"classes", Vints(1) \o <<"lists">> >> >>

cnex_tables ==
  << <<"export_types", Vints(2)>>, <<"export_constants", Vints(2) \o <<"bytes">> >>,
     <<"export_variables", Vints(3)>>, <<"export_functions", Vints(3)>>,
     <<"export_exceptions", Vints(1)>>, <<"export_interfaces", Vints(1) \o <<"pairs">> >>,
     <<"imports", Vints(2) \o <<"head">> >>, <<"functions", Vints(5)>>,
     <<"exceptions", Vints(5)>>, <<"classes", Vints(1) \o <<"lists">> >> >>

ReadMany(Get(_), bytes, i) ==
  LET Following(n) == ReadEach(n.value, n.next, LAMBDA j, k : Get(j))
  IN  Following(get_vint(bytes, i))

ReadItem(kind, bytes, i) ==
  LET vint(j) == get_vint(bytes, j)
      vints(j, n) == ReadEach(n, j, LAMBDA at, k : vint(at))
      slice(j, n) == Read(SubSeq(bytes, j, j + n - 1), j + n)
      sliced(n) == slice(n.next, n.value)
  IN  CASE kind = "vint"  -> vint(i)
        [] kind = "bytes" -> sliced(vint(i))
        [] kind = "hash"  -> slice(i, HashBytes)
        [] kind = "head"  -> Read(SubSeq(bytes, 1, HashBytes), i + HashBytes)
        [] kind = "pairs" -> ReadMany(LAMBDA j : vints(j, 2), bytes, i)
        [] kind = "lists" -> ReadMany(LAMBDA j : ReadMany(vint, bytes, j), bytes, i)

ReadRow(kinds, bytes, i) ==
  ReadEach(Len(kinds), i, LAMBDA j, k : ReadItem(kinds[k], bytes, j))

ReadTables(tables, bytes, i) ==
  LET Named(r) == Read([name \in {tables[k][1] : k \in DOMAIN tables} |->
                          r.value[CHOOSE k \in DOMAIN tables : tables[k][1] = name]], r.next)
  IN  Named(ReadEach(Len(tables), i, LAMBDA j, k :
              ReadMany(LAMBDA at : ReadRow(tables[k][2], bytes, at), bytes, j)))

getstrtable(bytes, start, size) ==
  LET Add(r, s) == Read(Append(r.value, s.value), s.next)
      Then(r) == IF r.next < start + size THEN Add(r, ReadItem("bytes", bytes, r.next)) ELSE r
      read[k \in 0..size] == IF k = 0 THEN Read(<<>>, start) ELSE Then(read[k - 1])
  IN  read[size].value

load(tables, bytes) ==
  LET AfterTables(fields, rows) ==
        [code |-> SubSeq(bytes, rows.next, Len(bytes))] @@ rows.value @@ fields
      AfterSize(fields, n) ==
        AfterTables([strtable |-> getstrtable(bytes, n.next, n.value)] @@ fields,
                    ReadTables(tables, bytes, n.next + n.value))
      AfterGlobals(hash, n) ==
        AfterSize([source_hash |-> hash, global_size |-> n.value], get_vint(bytes, n.next))
      AfterHash(hash) == AfterGlobals(hash.value, get_vint(bytes, hash.next))
      AfterVersion(version) == AfterHash(ReadItem("hash", bytes, version.next))
  IN  AfterVersion(get_vint(bytes, Len(Signature) + 1))

(***************************************************************************)
(* The object file of what the Emitter has generated.  What is exported,   *)
(* imported and declared as a class is the same in every module.           *)
(***************************************************************************)
Hash(k) == [j \in 1..HashBytes |-> (7 * j + k) % 256]
LongString == [k \in 1..200 |-> k]

ObjectRecord(em, infos) ==
  LET code == Resolve(em).code
      at == Layout(code)
  IN  [source_hash |-> Hash(1), global_size |-> 300,
       strtable |-> << <<>>, LongString, <<0, 255>> >>,
       export_types |-> << <<0, 300>>, <<16384, 1>> >>,
       export_constants |-> << <<1, 2, <<>> >>, <<3, 4, LongString>> >>,
       export_variables |-> << <<5, 6, 299>> >>, export_functions |-> << <<7, 8, 2>> >>,
       export_exceptions |-> << <<9>> >>,
       export_interfaces |-> << <<10, << <<11, 12>>, <<13, 14>> >> >>, <<15, <<>> >> >>,
       imports |-> << <<16, 0, Hash(2)>>, <<17, 1, Hash(3)>> >>,
       functions |-> Table([f \in DOMAIN infos |->
         <<Index(f, 0), infos[f].nest, infos[f].params, 0, at[em.entry[f]]>>]),
       exceptions |-> Table([k \in DOMAIN em.exc |->
         <<at[em.exc[k].start], at[em.exc[k].end], Index(k, 0), at[em.exc[k].handler],
           em.exc[k].depth>>]),
       classes |-> << <<18, << <<1, 2>>, <<>> >> >> >>,
       code |-> CodeBytes(code, at)]

=============================================================================
