--------------------------- MODULE ParsedBytecode ---------------------------
(***************************************************************************)
(* ParsedBytecode::parse(): the bytes of a method, or of a block nested in *)
(* it, are split into basic blocks that know who branches to them.         *)
(*                                                                         *)
(* A basic block is its offset.  One action is one turn of a loop: phase 1 *)
(* collects branch targets, phase 2 fills the blocks, phase 3 erases the   *)
(* blocks nobody refers to.                                                *)
(***************************************************************************)
EXTENDS Bytecode, FiniteSets

CONSTANT Sources    \* the methods to compile, sequences of statements

ASSUME SourcesAssumption == \A s \in Sources : WellFormed(EmitMethod(s))

VARIABLES
  method,       \* what the image's compiler made of the statements
  unit,         \* <<startOffset, stopOffset>>; stopOffset is 0 for a method
  phase,
  pointer,      \* of the decoder
  blocks,       \* m_basicBlocks: offsets in the order of the list
  body,         \* instructions of a block
  referers,     \* blocks that branch to a block
  current,      \* currentBasicBlock
  dead,         \* terminatorEncoded
  cursor,       \* phase 3: place in the list
  erased        \* phase 3: blockRemoved

parseVars == <<method, unit, phase, pointer, blocks, body, referers,
               current, dead, cursor, erased>>

\* TMethod: its instructions, where they start, and the bytes.
TMethods ==
  {LET code == EmitMethod(s)
   IN  [code |-> code, byteCodes |-> ByteCodes(code),
        starts |-> [k \in DOMAIN code |-> SizeOf(SubSeq(code, 1, k - 1))]] :
     s \in Sources}

Bytes == method.byteCodes

startOffset == unit[1]
stopOffset == unit[2]
stopPointer == IF stopOffset # 0 THEN stopOffset ELSE Len(Bytes)

Decoded == decodeAndShiftPointer(Bytes, pointer)

\* A method is parsed as a whole and so is every block in it.
Units(m) ==
  {<<0, 0>>} \cup {<<m.starts[k + 1], m.code[k].extra>> :
                      k \in {j \in DOMAIN m.code : m.code[j].op = "pushBlock"}}

\* The elements of a set of numbers in ascending order, as a std::set yields.
Ascending(S) ==
  [k \in 1 .. Cardinality(S) |-> CHOOSE n \in S : Cardinality({m \in S : m < n}) = k - 1]

Known(offset) == offset \in ToSet(blocks)

ParseInit ==
  /\ method \in TMethods
  /\ unit \in Units(method)
  /\ phase = "collect"
  /\ pointer = unit[1]
  /\ blocks = <<>>
  /\ body = <<>> /\ referers = <<>>
  /\ current = unit[1] /\ dead = FALSE
  /\ cursor = 1 /\ erased = FALSE

\* createBasicBlock(), once for every offset.
createBasicBlock(list, offset) ==
  IF offset \in ToSet(list) THEN list ELSE Append(list, offset)

\* Phase 1.  A nested block is parsed as a unit of its own and jumped over.
Collect ==
  /\ phase = "collect" /\ pointer < stopPointer
  /\ LET i == Decoded.instr
     IN  /\ pointer' = IF i.op = "pushBlock" THEN i.extra ELSE Decoded.next
         /\ blocks' =
              CASE IsSpecial(i, {"branchIfTrue", "branchIfFalse"}) ->
                     createBasicBlock(createBasicBlock(blocks, Decoded.next), i.extra)
                [] IsSpecial(i, {"branch"}) -> createBasicBlock(blocks, i.extra)
                [] OTHER -> blocks
  /\ UNCHANGED <<method, unit, phase, body, referers, current, dead, cursor, erased>>

\* The block at the start is put in front unless a branch created it.
StartPopulating ==
  /\ phase = "collect" /\ pointer >= stopPointer
  /\ phase' = "populate"
  /\ pointer' = startOffset
  /\ blocks' = IF Known(startOffset) THEN blocks ELSE <<startOffset>> \o blocks
  /\ body' = [b \in ToSet(blocks') |-> <<>>]
  /\ referers' = [b \in ToSet(blocks') |-> {}]
  /\ UNCHANGED <<method, unit, current, dead, cursor, erased>>

HasTerminator(code) == code # <<>> /\ isTerminator(Last(code))

Refer(refs, from, targets) ==
  [b \in DOMAIN refs |-> IF b \in targets THEN refs[b] \cup {from} ELSE refs[b]]

\* Mutant: a conditional branch refers to its target only.
RunsIntoTarget(next) ==
  IF ~HasTerminator(body[current]) THEN {next}
  ELSE IF isBranch(Last(body[current])) THEN {Last(body[current]).extra}
  ELSE {}

\* updateReferences(): control runs from one block into the next.
RunsInto(next) ==
  IF ~HasTerminator(body[current]) THEN {next}
  ELSE LET t == Last(body[current])
       IN  CASE IsSpecial(t, {"branch"}) -> {t.extra}
             [] IsSpecial(t, {"branchIfTrue", "branchIfFalse"}) -> {next, t.extra}
             [] OTHER -> {}

\* Phase 2.  Code behind a terminator is dropped up to the next block; only
\* live code jumps over the bytes of a nested block.
Populate ==
  /\ phase = "populate" /\ pointer < stopPointer
  /\ LET enters == pointer # startOffset /\ Known(pointer)
         here   == IF enters THEN pointer ELSE current
         ended  == ~enters /\ dead
         i      == Decoded.instr
         joined == IF enters /\ ~HasTerminator(body[current])
                   THEN [body EXCEPT ![current] =
                           @ \o Jump("branch", pointer)]
                   ELSE body
         linked == IF enters THEN Refer(referers, current, RunsInto(pointer))
                   ELSE referers
         isLast == Decoded.next >= stopPointer /\ isBranch(i)
     IN  /\ current' = here
         /\ body' = IF ended THEN joined
                    ELSE [joined EXCEPT ![here] = Append(@, i)]
         /\ pointer' = IF ~ended /\ i.op = "pushBlock" THEN i.extra
                       ELSE Decoded.next
         /\ dead' = (ended \/ isTerminator(i))
         /\ referers' = IF ~ended /\ isLast THEN Refer(linked, here, {i.extra})
                        ELSE linked
  /\ UNCHANGED <<method, unit, phase, blocks, cursor, erased>>

StartWiping ==
  /\ phase = "populate" /\ pointer >= stopPointer
  /\ phase' = "wipe"
  /\ cursor' = 1 /\ erased' = FALSE
  /\ UNCHANGED <<method, unit, pointer, blocks, body, referers, current, dead>>

\* getNextBlockOffset(), 0 if there is none below the limit.
getNextBlockOffset(block, limit) ==
  LET after == {b \in ToSet(blocks) : block < b /\ b < limit}
  IN  IF after = {} THEN 0 ELSE CHOOSE b \in after : \A c \in after : b <= c

\* Mutant: the block that follows is left out.
AbandonedTarget(block) ==
  IF ~HasTerminator(body[block]) \/ ~isBranch(Last(body[block])) THEN {}
  ELSE {Last(body[block]).extra}

\* Whom an erased block is forgotten by.
Abandoned(block) ==
  IF ~HasTerminator(body[block]) \/ ~isBranch(Last(body[block])) THEN {}
  ELSE LET t == Last(body[block])
       IN  {t.extra} \cup (IF IsSpecial(t, {"branch"}) THEN {}
                           ELSE {getNextBlockOffset(block, stopOffset)})

\* Phase 3, one turn of the inner loop; the list is scanned again as long as
\* a block was erased.
Wipe ==
  /\ phase = "wipe" /\ cursor <= Len(blocks)
  /\ LET b == blocks[cursor]
     IN  IF referers[b] = {} /\ b # startOffset
         THEN /\ blocks' = RemoveAt(blocks, cursor)
              /\ body' = [c \in DOMAIN body \ {b} |-> body[c]]
              /\ referers' = [c \in DOMAIN referers \ {b} |->
                                IF c \in Abandoned(b) THEN referers[c] \ {b}
                                ELSE referers[c]]
              /\ erased' = TRUE
              /\ UNCHANGED cursor
         ELSE cursor' = cursor + 1 /\ UNCHANGED <<blocks, body, referers, erased>>
  /\ UNCHANGED <<method, unit, phase, pointer, current, dead>>

\* Mutant: blockRemoved is not reset.
RescanForever ==
  /\ phase = "wipe" /\ cursor > Len(blocks)
  /\ IF erased THEN cursor' = 1 /\ UNCHANGED phase
     ELSE phase' = "construct" /\ cursor' = 1
  /\ UNCHANGED <<method, unit, pointer, blocks, body, referers, current, dead, erased>>

Rescan ==
  /\ phase = "wipe" /\ cursor > Len(blocks)
  /\ IF erased THEN cursor' = 1 /\ erased' = FALSE /\ UNCHANGED phase
     ELSE phase' = "construct" /\ cursor' = 1 /\ UNCHANGED erased
  /\ UNCHANGED <<method, unit, pointer, blocks, body, referers, current, dead>>

ParseNext ==
  Collect \/ StartPopulating \/ Populate \/ StartWiping \/ Wipe \/ Rescan

-----------------------------------------------------------------------------
Parsed == phase \notin {"collect", "populate", "wipe"}

(***************************************************************************)
(* The parser, with anyone behind it who reads the blocks and leaves them  *)
(* as they are: buildGraph(), the optimizer and the compiler do.           *)
(***************************************************************************)
Handed == Parsed /\ Parsed' /\ UNCHANGED <<method, unit, blocks, body, referers>>

ParseSpec == ParseInit /\ [][ParseNext \/ Handed]_parseVars

\* Where a block goes when it ends.
Successors(b) ==
  IF ~HasTerminator(body[b]) THEN {}
  ELSE LET t == Last(body[b])
       IN  CASE IsSpecial(t, {"branch"}) -> {t.extra}
             [] IsSpecial(t, {"branchIfTrue", "branchIfFalse"}) ->
                  {t.extra, getNextBlockOffset(b, stopPointer)}
             [] OTHER -> {}

\* A conditional branch in a block that was erased: its fall-through block
\* keeps it as a referer when the unit is a method.
Orphaned == (UNION {referers[b] : b \in DOMAIN referers}) \ ToSet(blocks)

(***************************************************************************)
(* The decoder of the VM stays in step with the compiler of the image: it  *)
(* stands at the first byte of an emitted instruction, in dead code and in *)
(* nested blocks too, and reads that instruction.                          *)
(***************************************************************************)
DecodedAsEmitted ==
  phase \in {"collect", "populate"} /\ pointer < Len(Bytes) - Padding =>
    \E k \in DOMAIN method.code :
      /\ pointer = method.starts[k]
      /\ Decoded.instr = method.code[k]

\* The offset behind the terminator that control in m meets first from offset b:
\* the first one that is not in a block nested behind b.
Behind(m, b) ==
  LET first  == CHOOSE k \in DOMAIN m.code : m.starts[k] = b
      nested(k) == \E q \in first .. k - 1 :
                     m.code[q].op = "pushBlock" /\ m.starts[k] < m.code[q].extra
      ends   == {k \in first .. Len(m.code) : isTerminator(m.code[k]) /\ ~nested(k)}
  IN  m.starts[(CHOOSE k \in ends : \A j \in ends : k <= j) + 1]

(***************************************************************************)
(* Basic blocks: every block that is left ends in the only terminator it   *)
(* has, its referers are the blocks that really branch to it, and the next *)
(* block is the one behind a conditional branch: the compiler finds it by  *)
(* the edges that the referers give.  (A method, unlike a block, keeps     *)
(* referers that were erased: see Orphaned.)                               *)
(***************************************************************************)
BlocksExact ==
  Parsed =>
    /\ \A b \in ToSet(blocks) :
         /\ HasTerminator(body[b])
         /\ \A k \in 1 .. Len(body[b]) - 1 : ~isTerminator(body[b][k])
         /\ referers[b] \ Orphaned = {c \in ToSet(blocks) : b \in Successors(c)}
         /\ IsSpecial(Last(body[b]), {"branchIfTrue", "branchIfFalse"}) =>
              getNextBlockOffset(b, stopPointer) = Behind(method, b)
    /\ stopOffset # 0 => Orphaned = {}

(***************************************************************************)
(* The parser of the VM undoes the compiler of the image: it reads the     *)
(* instructions that were emitted and divides them into the basic blocks   *)
(* they make.                                                              *)
(***************************************************************************)
BlocksAsEmitted == DecodedAsEmitted /\ BlocksExact
=============================================================================
