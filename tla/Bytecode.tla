------------------------------ MODULE Bytecode ------------------------------
(***************************************************************************)
(* The instruction set: TSmalltalkInstruction, the decoder of the VM and,  *)
(* on the other side, the compiler of the image that emits the bytes.      *)
(*                                                                         *)
(* An expression of the source is a record [k |-> kind, a |-> parts]; a    *)
(* method is a sequence of statements.                                     *)
(***************************************************************************)
EXTENDS Integers, Sequences, SequencesExt

CONSTANTS
  Exprs,      \* the expressions of the methods to compile and their parts
  Padding     \* zero bytes the encoder leaves at the end of a method

ASSUME PaddingAssumption == Padding \in Nat

Opcode == [extended |-> 0, pushInstance |-> 1, pushArgument |-> 2,
           pushTemporary |-> 3, pushLiteral |-> 4, pushConstant |-> 5,
           assignInstance |-> 6, assignTemporary |-> 7, markArguments |-> 8,
           sendMessage |-> 9, sendUnary |-> 10, sendBinary |-> 11,
           pushBlock |-> 12, doPrimitive |-> 13, doSpecial |-> 15]

Special == [selfReturn |-> 1, stackReturn |-> 2, blockReturn |-> 3,
            duplicate |-> 4, popTop |-> 5, branch |-> 6, branchIfTrue |-> 7,
            branchIfFalse |-> 8, sendToSuper |-> 11]

\* enum primitive::Opcode
AllocateObject == 7
BlockInvoke == 8
ArrayAt == 24
SendMessage == 252

ConstNil == 10     \* pushConstants::nil

Instr(op, arg, extra) == [op |-> op, arg |-> arg, extra |-> extra]

IsSpecial(i, names) ==
  i.op = "doSpecial" /\ i.arg \in {Special[n] : n \in names}

isBranch(i) == IsSpecial(i, {"branch", "branchIfTrue", "branchIfFalse"})

isTerminator(i) ==
  isBranch(i) \/ IsSpecial(i, {"stackReturn", "selfReturn", "blockReturn"})

isValueProvider(i) ==
  \/ i.op \in {"pushInstance", "pushArgument", "pushTemporary", "pushLiteral",
               "pushBlock", "pushConstant", "markArguments", "sendMessage",
               "sendUnary", "sendBinary", "doPrimitive"}
  \/ IsSpecial(i, {"duplicate", "sendToSuper"})

isTrivial(i) ==
  \/ i.op \in {"pushInstance", "pushArgument", "pushTemporary", "pushLiteral",
               "pushConstant", "markArguments"}
  \/ IsSpecial(i, {"duplicate"})

mayCauseGC(i) ==
  \/ i.op \in {"pushBlock", "sendBinary", "sendMessage", "doPrimitive"}
  \/ IsSpecial(i, {"sendToSuper"})

-----------------------------------------------------------------------------
\* Bytes after the argument that hold the extra of an instruction.
ExtraBytes(op, arg) ==
  LET i == Instr(op, arg, 0)
  IN  CASE op = "pushBlock" \/ isBranch(i) -> 2
        [] op = "doPrimitive" \/ IsSpecial(i, {"sendToSuper"}) -> 1
        [] OTHER -> 0

(***************************************************************************)
(* decodeAndShiftPointer(): the instruction at an offset and the offset    *)
(* behind it.  Nothing but the first byte is checked against the size: a   *)
(* read behind the end yields some byte, here 0.                           *)
(***************************************************************************)
decodeAndShiftPointer(bytes, pointer) ==
  LET byte(p)  == IF p < Len(bytes) THEN bytes[p + 1] ELSE 0
      high     == byte(pointer) \div 16
      extended == high = Opcode.extended
      number   == IF extended THEN byte(pointer) % 16 ELSE high
      op       == CHOOSE o \in DOMAIN Opcode : Opcode[o] = number
      arg      == IF extended THEN byte(pointer + 1) ELSE byte(pointer) % 16
      p        == IF extended THEN pointer + 2 ELSE pointer + 1
      n        == ExtraBytes(op, arg)
      extra    == CASE n = 0 -> 0
                    [] n = 1 -> byte(p)
                    [] n = 2 -> byte(p) + 256 * byte(p + 1)
  IN  [instr |-> Instr(op, arg, extra), next |-> p + n]

-----------------------------------------------------------------------------
(***************************************************************************)
(* The Encoder of the image.  An argument of 16 or more is written in a    *)
(* byte of its own, behind a byte whose high half is 0.                    *)
(***************************************************************************)
genHigh(op, low) ==
  IF low >= 16 THEN <<Opcode[op], low>> ELSE <<Opcode[op] * 16 + low>>

EncodeInstr(i) ==
  genHigh(i.op, i.arg) \o
    CASE ExtraBytes(i.op, i.arg) = 0 -> <<>>
      [] ExtraBytes(i.op, i.arg) = 1 -> <<i.extra>>
      [] OTHER -> <<i.extra % 256, i.extra \div 256>>

Encode(code) == FlattenSeq([k \in DOMAIN code |-> EncodeInstr(code[k])])

SizeOf(code) == Len(Encode(code))

HasTarget(i) == isBranch(i) \/ i.op = "pushBlock"

\* Code is emitted with targets relative to its first byte; Then appends.
Shift(code, by) ==
  [k \in DOMAIN code |->
     IF HasTarget(code[k]) THEN [code[k] EXCEPT !.extra = @ + by] ELSE code[k]]

Then(c, d) == c \o Shift(d, SizeOf(c))

Do(name) == <<Instr("doSpecial", Special[name], 0)>>

Jump(name, target) == <<Instr("doSpecial", Special[name], target)>>

JumpSize == SizeOf(Jump("branch", 0))

\* optimizeIf: and compile:test:constant:block:, both around two arms.
Choice(name, cond, met, unmet) ==
  LET skip   == SizeOf(cond) + JumpSize
      target == skip + SizeOf(unmet) + JumpSize
  IN  Then(Then(cond \o Jump(name, target), unmet)
             \o Jump("branch", target + SizeOf(met)), met)

\* optimizeWhile:
Loop(cond, body) ==
  LET size == SizeOf(cond) + JumpSize + SizeOf(body) + 1 + JumpSize
  IN  Then(cond \o Jump("branchIfFalse", size), body)
        \o Do("popTop") \o Jump("branch", 0) \o <<Instr("pushConstant", ConstNil, 0)>>

Send(n) == <<Instr("markArguments", n, 0), Instr("sendMessage", 0, 0)>>

\* The compile:block: methods of the parse nodes, by kind of node.
Emit[e \in Exprs, inBlock \in BOOLEAN] ==
  LET n       == Len(e.a)
      part(k) == Emit[e.a[k], inBlock]
      all     == FoldLeft(Then, <<>>, [k \in 1 .. n |-> part(k)])
  IN  CASE e.k = "constant"  -> <<Instr("pushConstant", 1, 0)>>
        [] e.k = "literal"   -> <<Instr("pushLiteral", 1, 0)>>
        [] e.k = "self"      -> <<Instr("pushArgument", 0, 0)>>
        [] e.k = "argument"  -> <<Instr("pushArgument", 1, 0)>>
        [] e.k = "temporary" -> <<Instr("pushTemporary", 16, 0)>>
        [] e.k = "instance"  -> <<Instr("pushInstance", 0, 0)>>
        [] e.k = "assign"    -> all \o <<Instr("assignTemporary", 17, 0)>>
        [] e.k = "store"     -> all \o <<Instr("assignInstance", 0, 0)>>
        [] e.k = "isNil"     -> all \o <<Instr("sendUnary", 0, 0)>>
        [] e.k = "plus"      -> all \o <<Instr("sendBinary", 2, 0)>>
        [] e.k = "send"      -> all \o Send(n)
        [] e.k = "super"     -> all \o <<Instr("markArguments", n, 0),
                                        Instr("doSpecial", Special.sendToSuper, 0)>>
        [] e.k = "cascade"   -> Then(part(1) \o Do("duplicate"), part(2))
                                  \o Send(2) \o Do("popTop")
        [] e.k = "primitive" -> all \o <<Instr("doPrimitive", n, ArrayAt)>>
        [] e.k = "new"       -> all \o <<Instr("doPrimitive", n, AllocateObject)>>
        [] e.k = "perform"   -> all \o <<Instr("doPrimitive", n, SendMessage)>>
        [] e.k = "value"     -> all \o <<Instr("doPrimitive", n, BlockInvoke)>>
        [] e.k = "ifElse"    -> Choice("branchIfTrue", part(1), part(2), part(3))
        [] e.k = "ifTrue"    -> Choice("branchIfFalse", part(1),
                                       <<Instr("pushConstant", ConstNil, 0)>>, part(2))
        [] e.k = "while"     -> Loop(part(1), part(2))
        [] e.k = "sequence"  -> Then(part(1) \o Do("popTop"), part(2))
        [] e.k = "block"     ->
             LET body == Emit[e.a[1], TRUE] \o Do("stackReturn")
                 head == SizeOf(<<Instr("pushBlock", 0, 0)>>)
             IN  Then(<<Instr("pushBlock", 0, head + SizeOf(body))>>, body)
        [] e.k = "return"    -> all \o Do(IF inBlock THEN "blockReturn"
                                                     ELSE "stackReturn")

\* BodyNode: every statement is popped, a method ends with a return of self.
EmitMethod(statements) ==
  FoldLeft(Then, <<>>, [k \in DOMAIN statements |->
                          Emit[statements[k], FALSE] \o Do("popTop")])
    \o Do("selfReturn")

-----------------------------------------------------------------------------
Operations == DOMAIN Opcode \ {"extended"}

\* Instructions that have an encoding: arguments and parts of the extra are bytes.
Encodable ==
  {i \in [op : Operations, arg : Nat, extra : Nat] :
     /\ i.arg < 256 /\ i.extra < 256 * 256
     /\ ExtraBytes(i.op, i.arg) = 0 => i.extra = 0
     /\ ExtraBytes(i.op, i.arg) = 1 => i.extra < 256}

(***************************************************************************)
(* Code a decoder can be expected to parse.  Blocks are nested and their   *)
(* code ends in a return, as that of the method does.  A branch stays in   *)
(* the block it is in; behind one is the target of a conditional branch,   *)
(* or it is conditional itself: no two branches follow each other as one.   *)
(***************************************************************************)
WellFormed(code) ==
  LET Here        == DOMAIN code
      start       == [k \in Here |-> SizeOf(SubSeq(code, 1, k - 1))]
      returns(k)  == isTerminator(code[k]) /\ ~isBranch(code[k])
      splits(k)   == IsSpecial(code[k], {"branchIfTrue", "branchIfFalse"})
      inside(b, k) == code[b].op = "pushBlock" /\ b < k /\ start[k] < code[b].extra
      together(j, k) == \A b \in Here : inside(b, j) <=> inside(b, k)
  IN  /\ code \in Seq(Encodable) /\ code # <<>>
      /\ returns(Len(code)) /\ together(Len(code), 1)
      /\ \A k \in Here :
           /\ code[k].op = "pushBlock" =>
                \E e \in Here :
                  /\ k + 1 < e /\ code[k].extra = start[e] /\ together(e, k)
                  /\ returns(e - 1) /\ together(e - 1, k + 1)
           /\ isBranch(code[k]) =>
                /\ \E t \in Here : code[k].extra = start[t] /\ together(t, k)
                /\ splits(k) \/ \E c \in Here : /\ splits(c) /\ together(c, k) /\ k + 1 \in Here
                                                /\ code[c].extra = start[k + 1]

ByteCodes(code) == Encode(code) \o [k \in 1 .. Padding |-> 0]
=============================================================================
