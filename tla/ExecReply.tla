-------------------------------- MODULE ExecReply --------------------------------
(***************************************************************************)
(* What the bridge (native/bridge/pglite_bridge.c) reads out of the bytes   *)
(* of a reply.  WirePump takes a reply for a sequence of units and looks at *)
(* how they get from the engine to the buffer; here a reply is bytes, which *)
(* arrive in pieces cut anywhere, and has_rfq, authenticate, pgl_exec and   *)
(* pgl_exec_wire have to find the frames, columns and fields in them again. *)
(*                                                                         *)
(* A byte is a digit of base Base and an Int32 is WordLen of them, the      *)
(* first the most significant (256 and 4 in the code, which this module     *)
(* keeps as parameters); an Int16 is one byte.  A byte that stands for a    *)
(* character is the same byte in a value, a length or a type, so a body     *)
(* can hold what looks like a frame.                                       *)
(***************************************************************************)
EXTENDS Integers, Sequences, FiniteSets, SequencesExt

CONSTANTS
  Base, WordLen,
  FirstCap,                            \* the first size of the buffer (4096)
  SevCap, MsgCap, CodeCap, LineCap,    \* pgl_exec's buffers (64, 512, 16, 640)
  OutCaps,                             \* the sizes of the caller's buffer
  Replies,                             \* what the engine may send to pgl_exec
  AuthReplies,                         \* and to authenticate
  NoValue                              \* SQL's NULL

\* The bytes with a meaning: types of frames and fields, and characters.
Z == 1
D == 2
C == 3
E == 4
R == 5
S == 6
M == 7
Tab == 8
Newline == 9
Return == 10
Hash == 11
Colon == 12
Open == 13
\* "NULL" is one byte long here.
NullText == <<14>>

--------------------------------------------------------------------------------
(***************************************************************************)
(* Messages.                                                               *)
(***************************************************************************)
Byte == 0..(Base - 1)
\* No terminator in a string, no line end in a command tag.
Text == Seq(Byte \ {0})
Tags == Seq(Byte \ {0, Newline, Return})

Message ==
  [type : {D}, row : Seq({NoValue} \cup Seq(Byte))]
    \cup [type : {C}, tag : Tags]
    \cup [type : {E}, fields : Seq([kind : Byte \ {0}, text : Text])]
    \cup [type : {R}, code : Nat, salt : Seq(Byte)]
    \cup [type : Byte \ {D, C, E, R}, body : Seq(Byte)]

\* How many numbers k bytes have, and an Int32.
Power[k \in 0..WordLen] == IF k = 0 THEN 1 ELSE Base * Power[k - 1]
Words == Power[WordLen]

\* be32.
Word(n) ==
  LET shifted[k \in 0..WordLen] == IF k = 0 THEN n ELSE shifted[k - 1] \div Base
  IN [i \in 1..WordLen |-> shifted[WordLen - i] % Base]

\* rd32 at offset `at', with unsigned and with signed reading.
Rd(s, at) ==
  LET v[k \in 0..WordLen] == IF k = 0 THEN 0 ELSE Base * v[k - 1] + s[at + k]
  IN v[WordLen]
Signed(w) == IF 2 * w >= Words THEN w - Words ELSE w

Column(v) == IF v = NoValue THEN Word(Words - 1) ELSE Word(Len(v)) \o v
Field(f)  == <<f.kind>> \o f.text \o <<0>>

Body(m) ==
  CASE m.type = D -> <<Len(m.row)>> \o
                     FlattenSeq([i \in 1..Len(m.row) |-> Column(m.row[i])])
    [] m.type = C -> m.tag \o <<0>>
    [] m.type = E -> FlattenSeq([i \in 1..Len(m.fields) |-> Field(m.fields[i])])
                     \o <<0>>
    [] m.type = R -> Word(m.code) \o m.salt
    [] OTHER      -> m.body

Frame(m)  == <<m.type>> \o Word(WordLen + Len(Body(m))) \o Body(m)
Bytes(ms) == FlattenSeq([i \in 1..Len(ms) |-> Frame(ms[i])])

\* Lengths and numbers are within what the protocol has for them, and an MD5
\* request brings a salt of four bytes.
Fits(m) ==
  /\ WordLen + Len(Body(m)) < Words
  /\ m.type = D => /\ Len(m.row) < Base
                   /\ \A i \in 1..Len(m.row) :
                        m.row[i] # NoValue => 2 * Len(m.row[i]) < Words
  /\ m.type = R => m.code < Words /\ (m.code = 5 => Len(m.salt) = WordLen)

ASSUME ExecReplyAssumption ==
  /\ Base \in Nat \ 0..15 /\ WordLen \in Nat \ {0}
  /\ FirstCap \in Nat \ {0}
  /\ {SevCap, MsgCap, CodeCap, LineCap} \subseteq Nat \ {0}
  /\ SevCap + MsgCap + CodeCap <= LineCap
  /\ OutCaps \subseteq Nat \ {0}
  /\ NoValue \notin Seq(Byte)
  /\ \A ms \in Replies \cup AuthReplies :
       ms \in Seq(Message) /\ \A i \in 1..Len(ms) : Fits(ms[i])

VARIABLES
  caller,     \* "pgl_exec", "pgl_exec_wire", "authenticate"
  sent,       \* the messages the engine sends, never changed
  outcap,     \* the size of the caller's buffer
  phase,      \* "collect", "read", "done"
  buf, cap,   \* what exchange() has collected, and its capacity
  off,        \* where the caller has got to in it
  out,        \* the caller's buffer up to its terminator or its end
  rc,         \* pgl_exec's answer
  auth        \* the last AuthenticationRequest: its type and its salt

replyVars == <<caller, sent, outcap, phase, buf, cap, off, out, rc, auth>>

\* The messages that are whole in the first n bytes.
WholeIn(n) ==
  LET k == CHOOSE k \in 0..Len(sent) :
             /\ Len(Bytes(SubSeq(sent, 1, k))) <= n
             /\ k < Len(sent) => Len(Bytes(SubSeq(sent, 1, k + 1))) > n
  IN SubSeq(sent, 1, k)

--------------------------------------------------------------------------------
(***************************************************************************)
(* Frames in the buffer.                                                   *)
(***************************************************************************)
\* Is there a whole frame at offset `at'?
IsFrame(s, at) ==
  /\ Len(s) - at >= 1 + WordLen
  /\ Rd(s, at + 1) >= WordLen
  /\ at + 1 + Rd(s, at + 1) <= Len(s)

After(s, at) == at + 1 + Rd(s, at + 1)

\* Mutant of HasRfq: a byte that looks like the type is enough.
HasRfqAnywhere(s) == \E i \in 1..Len(s) : s[i] = Z /\ Len(s) - i >= WordLen

\* Where the loop over the frames stands after k of them.
Start(s) ==
  LET start[k \in 0..Len(s)] ==
        IF k = 0 THEN 0
        ELSE LET at == start[k - 1]
             IN IF IsFrame(s, at) THEN After(s, at) ELSE at
  IN start

HasRfq(s) ==
  \E k \in 0..Len(s) : LET at == Start(s)[k] IN IsFrame(s, at) /\ s[at + 1] = Z

--------------------------------------------------------------------------------
(***************************************************************************)
(* exchange(): pieces of the reply are appended until ReadyForQuery or      *)
(* until ten ticks have brought nothing (WirePump has the ticks).           *)
(***************************************************************************)
\* Mutant of Grown: doubled once.
GrownOnce(c, need) == IF c >= need THEN c ELSE IF c = 0 THEN FirstCap ELSE 2 * c

\* The capacity doubles until it is enough.
Grown(c, need) ==
  LET doubled[k \in 0..need] ==
        IF k > 0 THEN 2 * doubled[k - 1] ELSE IF c = 0 THEN FirstCap ELSE c
      k == CHOOSE k \in 0..need :
             /\ doubled[k] >= need
             /\ \A j \in 0..(k - 1) : doubled[j] < need
  IN IF c >= need THEN c ELSE doubled[k]

Arrive(n) ==
  /\ phase = "collect" /\ ~HasRfq(buf)
  /\ buf' = SubSeq(Bytes(sent), 1, Len(buf) + n)
  /\ cap' = Grown(cap, Len(buf) + n)
  /\ UNCHANGED <<caller, sent, outcap, phase, off, out, rc, auth>>

\* The loop is over: ReadyForQuery is there, or the engine has fallen silent.
Collected ==
  /\ phase = "collect"
  /\ phase' = "read"
  /\ UNCHANGED <<caller, sent, outcap, buf, cap, off, out, rc, auth>>

--------------------------------------------------------------------------------
(***************************************************************************)
(* pgl_exec.                                                               *)
(***************************************************************************)
\* Mutant of Sappend: room for the terminator is forgotten.
SappendToTheEnd(o, t) ==
  o \o SubSeq(t, 1, IF Len(o) + Len(t) >= outcap THEN outcap - Len(o) ELSE Len(t))

\* sappend: as much as leaves room for the terminator, which is put behind it.
Sappend(o, t) ==
  o \o SubSeq(t, 1, IF Len(o) + Len(t) >= outcap THEN outcap - Len(o) - 1
                                                ELSE Len(t))

\* The string at offset `at', to its terminator or to the end.
CString(b, at) ==
  LET ends == { i \in at..Len(b) : i = Len(b) \/ b[i + 1] = 0 }
  IN SubSeq(b, at + 1, CHOOSE i \in ends : \A j \in ends : i <= j)

\* Behind a column: where the next one is, the text with it, and whether to go on.
NextColumn(b, c, was) ==
  LET sep  == IF c > 1 THEN Sappend(was.out, <<Tab>>) ELSE was.out
      vlen == Signed(Rd(b, was.at))
      at   == was.at + WordLen
  IN IF ~was.on THEN was
     ELSE IF at > Len(b) THEN [at |-> at, out |-> sep, on |-> FALSE]
     ELSE IF vlen < 0
     THEN [at |-> at, out |-> Sappend(sep, NullText), on |-> TRUE]
     ELSE [at  |-> at + vlen, on |-> TRUE,
           out |-> Sappend(sep, SubSeq(b, at + 1, at + vlen))]

\* The columns of a DataRow, with a tab between two of them.
Columns(o, b) ==
  LET col[c \in 0..b[1]] ==
        IF c = 0 THEN [at |-> 1, out |-> o, on |-> TRUE]
                 ELSE NextColumn(b, c, col[c - 1])
  IN col[b[1]].out

\* The first bytes of t, at most n.
UpTo(t, n) == SubSeq(t, 1, IF Len(t) < n THEN Len(t) ELSE n)

\* Behind a field: snprintf leaves room for the terminator.
NextField(b, was) ==
  LET k == b[was.at + 1]
      t == CString(b, was.at + 1)
  IN IF was.at >= Len(b) \/ k = 0 THEN was
     ELSE [at   |-> was.at + 1 + Len(t) + 1,
           sev  |-> IF k = S THEN UpTo(t, SevCap - 1) ELSE was.sev,
           msg  |-> IF k = M THEN UpTo(t, MsgCap - 1) ELSE was.msg,
           code |-> IF k = C THEN UpTo(t, CodeCap - 1) ELSE was.code]

\* The fields of an ErrorResponse: the last of each kind counts.
Fields(b) ==
  LET got[i \in 0..Len(b)] ==
        IF i = 0 THEN [at |-> 0, sev |-> <<>>, msg |-> <<>>, code |-> <<>>]
                 ELSE NextField(b, got[i - 1])
  IN got[Len(b)]

\* "%s: %s (SQLSTATE %s)", each of its separators one byte.
Line(f) == f.sev \o <<Colon>> \o f.msg \o <<Open>> \o f.code

FrameBody == SubSeq(buf, off + 1 + WordLen + 1, After(buf, off))

DataRow ==
  /\ buf[off + 1] = D
  /\ out' = Sappend(Columns(out, FrameBody), <<Newline>>)
  /\ UNCHANGED rc

CommandComplete ==
  /\ buf[off + 1] = C
  /\ out' = Sappend(Sappend(Sappend(out, <<Hash>>), CString(FrameBody, 0)),
                    <<Newline>>)
  /\ UNCHANGED rc

\* Mutant of ErrorResponse: the rows of the statements before stay.
ErrorResponseAppends ==
  /\ buf[off + 1] = E
  /\ out' = Sappend(out, Line(Fields(FrameBody)))
  /\ rc' = -1

\* What was written so far is taken back.
ErrorResponse ==
  /\ buf[off + 1] = E
  /\ out' = Sappend(<<>>, Line(Fields(FrameBody)))
  /\ rc' = -1

ExecFrame ==
  /\ phase = "read" /\ caller = "pgl_exec" /\ IsFrame(buf, off)
  /\ \/ DataRow
     \/ CommandComplete
     \/ ErrorResponse
     \/ buf[off + 1] \notin {D, C, E} /\ UNCHANGED <<out, rc>>
  /\ off' = After(buf, off)
  /\ UNCHANGED <<caller, sent, outcap, phase, buf, cap, auth>>

--------------------------------------------------------------------------------
(***************************************************************************)
(* authenticate and pgl_exec_wire.                                         *)
(***************************************************************************)
NoAuth == [type |-> 0, salt |-> <<>>]

\* Mutant of Asked: the salt is taken from one byte too early.
AskedEarly(b) ==
  IF Len(b) < WordLen THEN auth
  ELSE [type |-> Rd(b, 0),
        salt |-> IF Rd(b, 0) = 5 /\ Len(b) >= 2 * WordLen
                 THEN SubSeq(b, WordLen, 2 * WordLen - 1) ELSE auth.salt]

\* An AuthenticationRequest frame; a salt stays until another one comes.
Asked(b) ==
  IF Len(b) < WordLen THEN auth
  ELSE [type |-> Rd(b, 0),
        salt |-> IF Rd(b, 0) = 5 /\ Len(b) >= 2 * WordLen
                 THEN SubSeq(b, WordLen + 1, 2 * WordLen) ELSE auth.salt]

AuthFrame ==
  /\ phase = "read" /\ caller = "authenticate" /\ IsFrame(buf, off)
  /\ auth' = IF buf[off + 1] = R THEN Asked(FrameBody) ELSE auth
  /\ off' = After(buf, off)
  /\ UNCHANGED <<caller, sent, outcap, phase, buf, cap, out, rc>>

\* pgl_exec_wire copies what fits.
WireCopies ==
  /\ phase = "read" /\ caller = "pgl_exec_wire"
  /\ out' = UpTo(buf, outcap)
  /\ phase' = "done"
  /\ UNCHANGED <<caller, sent, outcap, buf, cap, off, rc, auth>>

\* No frame is left, or the rest of one.
FramesEnd ==
  /\ phase = "read" /\ caller # "pgl_exec_wire" /\ ~IsFrame(buf, off)
  /\ phase' = "done"
  /\ UNCHANGED <<caller, sent, outcap, buf, cap, off, out, rc, auth>>

\* What authenticate does about the request: nothing, the password, its digest
\* with the user's name and the salt (md5hex), or fail.
PasswordFor(a) ==
  CASE a.type = 0 -> <<"none">>
    [] a.type = 3 -> <<"password">>
    [] a.type = 5 -> <<"md5", <<"md5", "password", "postgres">>, a.salt>>
    [] OTHER      -> <<"fail">>

ReplyInit ==
  /\ \/ caller \in {"pgl_exec", "pgl_exec_wire"} /\ sent \in Replies
     \/ caller = "authenticate" /\ sent \in AuthReplies
  /\ outcap \in OutCaps
  /\ phase = "collect"
  /\ buf = <<>> /\ cap = 0 /\ off = 0
  /\ out = <<>> /\ rc = 0
  /\ auth = NoAuth

ReplyNext ==
  \/ \E n \in 1..(Len(Bytes(sent)) - Len(buf)) : Arrive(n)
  \/ Collected
  \/ ExecFrame
  \/ AuthFrame
  \/ WireCopies
  \/ FramesEnd

ReplySpec == ReplyInit /\ [][ReplyNext]_replyVars

--------------------------------------------------------------------------------
(***************************************************************************)
(* PGlite.query and PGlite.rows (Sources/PGliteKit/PGlite.swift).           *)
(***************************************************************************)
\* Where a line ends: a newline behind a carriage return makes one Character
\* with it, which is not a newline.
LineEnds(t) == { i \in 1..Len(t) : t[i] = Newline /\ (i = 1 \/ t[i - 1] # Return) }

\* The k-th smallest of a set of numbers, and what s has at them, in order.
Nth(I, k) == CHOOSE i \in I : Cardinality({ j \in I : j < i }) = k - 1
At(s, I)  == [k \in 1..Cardinality(I) |-> s[Nth(I, k)]]

\* The parts of t between the places in `cuts'.
Parts(t, cuts) ==
  LET at == cuts \cup {0, Len(t) + 1}
  IN [i \in 1..(Cardinality(cuts) + 1) |->
        SubSeq(t, Nth(at, i) + 1, Nth(at, i + 1) - 1)]

TabsOf(l) == { i \in 1..Len(l) : l[i] = Tab }

\* Mutant of Rows: the tags stay.
RowsAndTags(t) ==
  LET lines == Parts(t, LineEnds(t))
      rows  == At(lines, { i \in 1..Len(lines) : lines[i] # <<>> })
  IN [i \in 1..Len(rows) |-> Parts(rows[i], TabsOf(rows[i]))]

IsRow(l) == l # <<>> /\ l[1] # Hash

Rows(t) ==
  LET lines == Parts(t, LineEnds(t))
      rows  == At(lines, { i \in 1..Len(lines) : IsRow(lines[i]) })
  IN [i \in 1..Len(rows) |-> Parts(rows[i], TabsOf(rows[i]))]

--------------------------------------------------------------------------------
Shown(v) == IF v = NoValue THEN NullText ELSE v
OfType(ms, t) == { i \in 1..Len(ms) : ms[i].type = t }
RowsOf(ms)    == At(ms, OfType(ms, D))

Joined(row) ==
  FlattenSeq([i \in 1..Len(row) |->
                IF i = 1 THEN Shown(row[1]) ELSE <<Tab>> \o Shown(row[i])])

\* The last field of a kind.
Said(k, fs) ==
  LET has == { i \in 1..Len(fs) : fs[i].kind = k }
  IN IF has = {} THEN <<>>
     ELSE fs[CHOOSE i \in has : \A j \in has : j <= i].text

\* What a message makes of the text before it: tab-separated columns, a tag, or
\* an error in place of all that went before.
Rendered(text, m) ==
  CASE m.type = D -> text \o Joined(m.row) \o <<Newline>>
    [] m.type = C -> text \o <<Hash>> \o m.tag \o <<Newline>>
    [] m.type = E -> UpTo(Said(S, m.fields), SevCap - 1) \o <<Colon>> \o
                     UpTo(Said(M, m.fields), MsgCap - 1) \o <<Open>> \o
                     UpTo(Said(C, m.fields), CodeCap - 1)
    [] OTHER      -> text

\* What the messages read like, of any length.
Rendering(ms) ==
  LET text[n \in 0..Len(ms)] ==
        IF n = 0 THEN <<>> ELSE Rendered(text[n - 1], ms[n])
  IN text[Len(ms)]

\* The reply fits its buffer, and the offset stays in it.
ReplyTypeOK ==
  /\ phase \in {"collect", "read", "done"}
  /\ caller \in {"pgl_exec", "pgl_exec_wire", "authenticate"}
  /\ outcap \in OutCaps
  /\ buf \in Seq(Byte) /\ cap \in Nat /\ Len(buf) <= cap
  /\ off \in 0..Len(buf)
  /\ out \in Seq(Byte) /\ Len(out) <= outcap
  /\ rc \in {0, -1}
  /\ auth.type \in Nat /\ auth.salt \in Seq(Byte)

\* However a reply is cut into pieces, and whatever bytes its bodies hold,
\* has_rfq finds ReadyForQuery when all of it has come and not before.
ReadyIsFound ==
  HasRfq(buf) <=> \E i \in 1..Len(WholeIn(Len(buf))) : sent[i].type = Z

\* pgl_exec's text is what the messages that came read like, as much of it as
\* leaves room for the terminator; an error that came is the answer and its
\* message replaces the rows before it.  pgl_exec_wire's bytes are the reply's.
OutputIsExact ==
  phase = "done" =>
    LET whole == WholeIn(Len(buf))
    IN /\ caller = "pgl_exec" =>
            /\ out = UpTo(Rendering(whole), outcap - 1)
            /\ rc = -1 <=> OfType(whole, E) # {}
       /\ caller = "pgl_exec_wire" =>
            out = UpTo(UpTo(Bytes(sent), Len(buf)), outcap)

\* The password goes to the request that came last, with the salt that came
\* with it, and nothing is sent for one that asks for nothing.
AnswersTheRequest ==
  phase = "done" /\ caller = "authenticate" =>
    LET whole == WholeIn(Len(buf))
        asked == OfType(whole, R)
        last  == whole[CHOOSE i \in asked : \A j \in asked : j <= i]
    IN PasswordFor(auth) =
         IF asked = {} THEN <<"none">>
         ELSE PasswordFor([type |-> last.code, salt |-> last.salt])

\* A value comes out of rows() as it is in the reply when it holds no tab and
\* no line end, and its line is not empty and does not begin like a tag.
Tame(row) ==
  LET bytes(v) == { Shown(v)[i] : i \in 1..Len(Shown(v)) }
  IN /\ row # <<>>
     /\ \A i \in 1..Len(row) : bytes(row[i]) \cap {Tab, Newline, Return} = {}
     /\ Len(row) = 1 => Shown(row[1]) # <<>>
     /\ Shown(row[1]) # <<>> => Shown(row[1])[1] # Hash

\* rows() gives the rows of the reply, column for column, when every one of them
\* is tame and the text was not cut.
RowsComeBack ==
  phase = "done" /\ caller = "pgl_exec" /\ rc = 0 =>
    LET whole == WholeIn(Len(buf))
        rows  == RowsOf(whole)
    IN /\ \A i \in 1..Len(rows) : Tame(rows[i].row)
       /\ Len(Rendering(whole)) < outcap
       => Rows(out) = [i \in 1..Len(rows) |->
                        [j \in 1..Len(rows[i].row) |-> Shown(rows[i].row[j])]]
===============================================================================
