---------------------------- MODULE GrammarProofs ----------------------------
(***************************************************************************)
(* The parsers of Accept and Content-Type read what is written.  What a      *)
(* header means is given by the grammar of HeaderGrammar, which says how     *)
(* pieces follow each other and what each piece says, and nothing of how a   *)
(* header is parsed.                                                         *)
(*                                                                           *)
(* The argument: the tokens the parser has taken are pieces (Derives) that   *)
(* say what the parser remembers (Says), and a header can only begin with    *)
(* them in one way (Agree): whitespace is taken whenever there is some, and  *)
(* what a piece is shows in what opens it, in its name and in the piece      *)
(* before.  So a parser that comes to the end has read the meaning of the    *)
(* header, and one that fails could not have gone on in any other way.       *)
(***************************************************************************)
EXTENDS ParserProofs, HeaderGrammar

-----------------------------------------------------------------------------
(* Headers and their rests.                                                  *)

(* The rest of a header from a place on.                                     *)
LEMMA RestOf ==
  ASSUME NEW t \in Seq(Token), NEW c \in 1 .. Len(t) + 1
  PROVE  /\ From(t, c) \in Seq(Token) /\ Len(From(t, c)) = Len(t) - c + 1
         /\ \A i \in 1 .. Len(t) - c + 1 : From(t, c)[i] = t[c + i - 1]
  <1>1. Len(t) \in Nat /\ c \in Int /\ Len(t) \in Int
    BY LenProperties
  <1>2. \A i \in c .. Len(t) : t[i] \in Token
    BY <1>1, ElementOfSeq
  <1>3. /\ SubSeq(t, c, Len(t)) \in Seq(Token)
        /\ Len(SubSeq(t, c, Len(t))) = IF c <= Len(t) THEN Len(t) - c + 1 ELSE 0
        /\ \A i \in 1 .. Len(t) - c + 1 : SubSeq(t, c, Len(t))[i] = t[c + i - 1]
    BY <1>1, <1>2, SubSeqProperties
  <1>. QED  BY <1>1, <1>3 DEF From

(* What a rest begins with.                                                  *)
LEMMA RestFirst ==
  ASSUME NEW t \in Seq(Token), NEW c \in 1 .. Len(t) + 1
  PROVE  /\ From(t, c) = <<>> <=> c = Len(t) + 1
         /\ c <= Len(t) => /\ Head(From(t, c)) = t[c]
                           /\ Tail(From(t, c)) = From(t, c + 1)
         /\ \A x : Starts(From(t, c), x) <=> c <= Len(t) /\ t[c] = x
  <1>1. From(t, c) \in Seq(Token) /\ Len(From(t, c)) = Len(t) - c + 1 /\ Len(t) \in Nat
    BY RestOf, LenProperties
  <1>2. From(t, c) = <<>> <=> c = Len(t) + 1
    BY <1>1, EmptySeq
  <1>3. ASSUME c <= Len(t)
        PROVE  Head(From(t, c)) = t[c] /\ Tail(From(t, c)) = From(t, c + 1)
    <2>1. c \in 1 .. Len(t) /\ Len(t) \in c .. Len(t)
      BY <1>1, <1>3
    <2>. QED  BY <2>1, HeadTailOfSubSeq DEF From
  <1>4. \A x : Starts(From(t, c), x) <=> c <= Len(t) /\ t[c] = x
    BY <1>1, <1>2, <1>3 DEF Starts
  <1>. QED  BY <1>2, <1>3, <1>4

(* The rest behind three tokens, as the parsers compute it.                  *)
LEMMA RestOfRest ==
  ASSUME NEW t \in Seq(Token), NEW c \in 1 .. Len(t) + 1, c + 3 <= Len(t) + 1
  PROVE  From(From(t, c), 4) = From(t, c + 3)
  <1>1. Len(t) \in Nat
    BY LenProperties
  <1>2. /\ From(t, c) \in Seq(Token) /\ Len(From(t, c)) = Len(t) - c + 1
        /\ \A i \in 1 .. Len(t) - c + 1 : From(t, c)[i] = t[c + i - 1]
    BY RestOf
  <1>3. 4 \in 1 .. Len(From(t, c)) + 1 /\ c + 3 \in 1 .. Len(t) + 1
    BY <1>1, <1>2
  <1>4. /\ From(From(t, c), 4) \in Seq(Token)
        /\ Len(From(From(t, c), 4)) = Len(From(t, c)) - 4 + 1
        /\ \A i \in 1 .. Len(From(t, c)) - 4 + 1 : From(From(t, c), 4)[i] = From(t, c)[4 + i - 1]
    BY <1>2, <1>3, RestOf
  <1>5. /\ From(t, c + 3) \in Seq(Token)
        /\ Len(From(t, c + 3)) = Len(t) - (c + 3) + 1
        /\ \A i \in 1 .. Len(t) - (c + 3) + 1 : From(t, c + 3)[i] = t[(c + 3) + i - 1]
    BY <1>3, RestOf
  <1>6. Len(From(From(t, c), 4)) = Len(From(t, c + 3))
    BY <1>1, <1>2, <1>4, <1>5
  <1>7. ASSUME NEW i \in 1 .. Len(From(From(t, c), 4))
        PROVE  From(From(t, c), 4)[i] = From(t, c + 3)[i]
    <2>1. /\ i \in Int /\ i >= 1 /\ i <= Len(t) - c + 1 - 4 + 1
      BY <1>1, <1>2, <1>4
    <2>2. From(From(t, c), 4)[i] = From(t, c)[4 + i - 1]
      BY <1>1, <1>2, <1>4, <2>1
    <2>3. From(t, c)[4 + i - 1] = t[c + (4 + i - 1) - 1]
      BY <1>1, <1>2, <2>1
    <2>4. From(t, c + 3)[i] = t[(c + 3) + i - 1]
      BY <1>1, <1>5, <2>1
    <2>5. c + (4 + i - 1) - 1 = (c + 3) + i - 1
      BY <2>1
    <2>. QED  BY <2>2, <2>3, <2>4, <2>5
  <1>. QED  BY <1>4, <1>5, <1>6, <1>7, SeqEqual

(* Where the rest goes on behind whitespace.                                 *)
Past(t, c) == IF c <= Len(t) /\ t[c] = Blank THEN c + 1 ELSE c

LEMMA SkipBlank ==
  ASSUME NEW t
  PROVE  SkipWhitespaces(t) = IF Starts(t, Blank) THEN Tail(t) ELSE t
  BY Zenon DEF SkipWhitespaces, Blank

LEMMA SkipIsPast ==
  ASSUME NEW t \in Seq(Token), NEW c \in 1 .. Len(t) + 1
  PROVE  SkipWhitespaces(From(t, c)) = From(t, Past(t, c)) /\ Past(t, c) \in 1 .. Len(t) + 1
  <1>1. Len(t) \in Nat
    BY LenProperties
  <1>2. CASE c <= Len(t) /\ t[c] = Blank
    <2>1. Starts(From(t, c), Blank) /\ Tail(From(t, c)) = From(t, c + 1)
      BY <1>2, RestFirst
    <2>2. SkipWhitespaces(From(t, c)) = From(t, c + 1)
      BY <2>1, SkipBlank
    <2>. QED  BY <1>1, <1>2, <2>2 DEF Past
  <1>3. CASE ~(c <= Len(t) /\ t[c] = Blank)
    <2>1. ~Starts(From(t, c), Blank)
      BY <1>3, RestFirst
    <2>. QED  BY <1>3, <2>1, SkipBlank DEF Past
  <1>. QED  BY <1>2, <1>3

LEMMA NoBlankWord ==
  /\ Blank \notin Words /\ Semicolon \notin Words /\ Comma \notin Words
  /\ Semicolon # Comma /\ Semicolon # Blank /\ Comma # Blank
  BY WordsAssumption, Zenon DEF Comma, Semicolon, Blank

(* What the parser looks at behind what opens a piece.                       *)
Ahead(t, c) == SkipWhitespaces(From(t, c))

LEMMA WidthIs ==
  ASSUME NEW c \in Nat \ {0}, NEW lead \in 0 .. 1, NEW b \in 0 .. 1, NEW a \in 0 .. 1
  PROVE  /\ c + lead + b \in Nat /\ c + lead + b >= 1
         /\ c + (lead + b + 3 + a) = (c + lead + b + 3) + a
         /\ \A m \in Nat : c + (lead + b + 3 + a) <= m + 1 =>
               c + lead + b <= m /\ c + lead + b + 3 <= m + 1
  OBVIOUS

(* The words it finds there make a piece, and it goes on behind that piece.  *)
LEMMA PieceRead ==
  ASSUME NEW t \in Seq(Token), Tokenised(t), NEW lead \in 0 .. 1,
         NEW c \in 1 .. Len(t) + 1, c + lead <= Len(t) + 1,
         NEW p \in Piece, NEW x, x = Ahead(t, c + lead),
         Len(x) >= 3, x[2] = Joins(p.kind), p.name = x[1], p.value = x[3],
         lead = 1 => t[c] = Opens(p.kind),
         p.before = 1 <=> Starts(From(t, c + lead), Blank),
         p.after = 1 <=> Starts(From(x, 4), Blank)
  PROVE  /\ Stands(t, p, lead, c)
         /\ c + Width(p, lead) \in 1 .. Len(t) + 1
         /\ SkipWhitespaces(From(x, 4)) = From(t, c + Width(p, lead))
         /\ ~Starts(From(t, c + Width(p, lead)), Blank)
  <1>1. PICK m \in Nat : m = Len(t)
    BY LenProperties
  <1>2. PICK b \in 1 .. m + 1 : b = c + lead
    BY <1>1
  <1>3. PICK w \in 1 .. m + 1 : w = c + lead + p.before /\ w = Past(t, b)
    <2>1. p.before = 1 <=> b <= m /\ t[b] = Blank
      BY <1>1, <1>2, RestFirst
    <2>2. p.before \in 0 .. 1
      BY DEF Piece
    <2>. QED  BY <1>1, <1>2, <2>1, <2>2, SMTT(30) DEF Past
  <1>4. x = From(t, w)
    BY <1>1, <1>2, <1>3, SkipIsPast DEF Ahead
  <1>5. Len(x) = m - w + 1 /\ \A i \in 1 .. m - w + 1 : x[i] = t[w + i - 1]
    BY <1>1, <1>4, RestOf
  <1>6. w + 3 <= m + 1
    BY <1>1, <1>3, <1>5, SMTT(30)
  <1>7. t[w] = p.name /\ t[w + 1] = Joins(p.kind) /\ t[w + 2] = p.value
    <2>1. x[1] = t[w + 1 - 1] /\ x[2] = t[w + 2 - 1] /\ x[3] = t[w + 3 - 1]
      <3>1. 1 \in 1 .. m - w + 1 /\ 2 \in 1 .. m - w + 1 /\ 3 \in 1 .. m - w + 1
        BY <1>6
      <3>. QED  BY <1>5, <3>1
    <2>2. w + 1 - 1 = w /\ w + 2 - 1 = w + 1 /\ w + 3 - 1 = w + 2
      BY <1>6
    <2>. QED  BY <2>1, <2>2
  <1>8. From(x, 4) = From(t, w + 3) /\ w + 3 \in 1 .. m + 1
    BY <1>1, <1>4, <1>6, RestOfRest
  <1>9. p.after \in 0 .. 1 /\ (p.after = 1 <=> w + 3 <= m /\ t[w + 3] = Blank)
    <2>1. p.after \in 0 .. 1
      BY DEF Piece
    <2>. QED  BY <1>1, <1>8, <2>1, RestFirst
  <1>10. PICK d \in 1 .. m + 1 : d = c + Width(p, lead) /\ d = Past(t, w + 3)
    <2>1. w + 3 \in 1 .. m + 1
      BY <1>8
    <2>2. w + 3 + p.after = Past(t, w + 3) /\ w + 3 + p.after \in 1 .. m + 1
      BY <1>1, <1>9, <2>1, SMTT(30) DEF Past
    <2>3. w + 3 + p.after = c + Width(p, lead)
      <3>1. c \in Nat \ {0} /\ p.before \in 0 .. 1
        BY <1>1 DEF Piece
      <3>2. c + (lead + p.before + 3 + p.after) = (c + lead + p.before + 3) + p.after
        BY <1>9, <3>1, WidthIs, SMTT(30)
      <3>. QED  BY <1>3, <3>2 DEF Width
    <2>. QED  BY <2>2, <2>3
  <1>11. SkipWhitespaces(From(x, 4)) = From(t, d)
    BY <1>1, <1>8, <1>10, SkipIsPast
  <1>12. p.before = 1 => t[b] = Blank
    BY <1>1, <1>2, RestFirst
  <1>13. Stands(t, p, lead, c)
    BY <1>1, <1>2, <1>3, <1>7, <1>9, <1>10, <1>12 DEF Stands
  <1>14. ~Starts(From(t, d), Blank)
    <2>1. SUFFICES ASSUME d <= m, t[d] = Blank PROVE FALSE
      BY <1>1, RestFirst
    <2>2. t[w + 3] = Blank /\ d = (w + 3) + 1 /\ w + 3 \in 1 .. m - 1
      BY <1>1, <1>6, <1>10, <2>1, SMTT(30) DEF Past
    <2>. QED  BY <1>1, <2>1, <2>2 DEF Tokenised
  <1>. QED  BY <1>1, <1>10, <1>11, <1>13, <1>14

(* What is written at c is what the parser looks at.                         *)
LEMMA PieceAhead ==
  ASSUME NEW t \in Seq(Token), NEW lead \in 0 .. 1, NEW c \in 1 .. Len(t) + 1,
         NEW q \in Piece, Stands(t, q, lead, c)
  PROVE  /\ Len(Ahead(t, c + lead)) >= 3 /\ Ahead(t, c + lead)[1] = q.name
         /\ Ahead(t, c + lead)[2] = Joins(q.kind) /\ Ahead(t, c + lead)[3] = q.value
         /\ c + lead <= Len(t) /\ c + lead + q.before = Past(t, c + lead)
  <1>1. PICK m \in Nat : m = Len(t)
    BY LenProperties
  <1>2. q.before \in 0 .. 1 /\ q.after \in 0 .. 1 /\ q.name \in Words
    BY DEF Piece
  <1>3. PICK w \in 1 .. m : w = c + lead + q.before /\ w + 3 <= m + 1
    <2>1. c + (lead + q.before + 3 + q.after) <= m + 1
      BY <1>1 DEF Stands, Width
    <2>2. c \in Nat \ {0}
      BY <1>1
    <2>3. /\ c + lead + q.before \in Nat /\ c + lead + q.before >= 1
          /\ c + lead + q.before <= m /\ c + lead + q.before + 3 <= m + 1
      BY <1>1, <1>2, <2>1, <2>2, WidthIs
    <2>. QED  BY <2>3
  <1>4. t[w] = q.name /\ t[w + 1] = Joins(q.kind) /\ t[w + 2] = q.value
    BY <1>3 DEF Stands
  <1>5. w = Past(t, c + lead)
    <2>1. t[w] # Blank
      BY <1>2, <1>4, NoBlankWord
    <2>2. q.before = 1 => t[c + lead] = Blank
      BY DEF Stands
    <2>. QED  BY <1>1, <1>2, <1>3, <2>1, <2>2, SMTT(30) DEF Past
  <1>6. c + lead <= m /\ c + lead \in 1 .. m + 1
    BY <1>1, <1>2, <1>3, SMTT(30)
  <1>7. Ahead(t, c + lead) = From(t, w)
    BY <1>1, <1>5, <1>6, SkipIsPast DEF Ahead
  <1>8. Len(From(t, w)) = m - w + 1 /\ \A i \in 1 .. m - w + 1 : From(t, w)[i] = t[w + i - 1]
    <2>1. w \in 1 .. Len(t) + 1
      BY <1>1
    <2>. QED  BY <1>1, <2>1, RestOf
  <1>9. From(t, w)[1] = t[w] /\ From(t, w)[2] = t[w + 1] /\ From(t, w)[3] = t[w + 2]
    <2>1. 1 \in 1 .. m - w + 1 /\ 2 \in 1 .. m - w + 1 /\ 3 \in 1 .. m - w + 1
      BY <1>3, SMTT(30)
    <2>2. w + 1 - 1 = w /\ w + 2 - 1 = w + 1 /\ w + 3 - 1 = w + 2
      BY <1>3
    <2>. QED  BY <1>8, <2>1, <2>2
  <1>10. Len(From(t, w)) >= 3
    BY <1>3, <1>8, SMTT(30)
  <1>. QED  BY <1>1, <1>3, <1>4, <1>5, <1>6, <1>7, <1>9, <1>10

(* Of two pieces in one place that take the whitespace behind them along,    *)
(* each has what the other has.                                              *)
LEMMA OnePiece ==
  ASSUME NEW t \in Seq(Token), NEW lead \in 0 .. 1, NEW c \in 1 .. Len(t) + 1,
         NEW p \in Piece, Stands(t, p, lead, c),
         ~Starts(From(t, c + Width(p, lead)), Blank),
         NEW q \in Piece, Stands(t, q, lead, c),
         ~Starts(From(t, c + Width(q, lead)), Blank)
  PROVE  /\ p.before = q.before /\ p.name = q.name /\ p.value = q.value
         /\ p.after = q.after /\ (lead = 1 => Opens(p.kind) = Opens(q.kind))
  <1>1. PICK m \in Nat : m = Len(t)
    BY LenProperties
  <1>2. /\ p.before \in 0 .. 1 /\ p.after \in 0 .. 1
        /\ q.before \in 0 .. 1 /\ q.after \in 0 .. 1
    BY DEF Piece
  <1>3. p.before = q.before /\ p.name = q.name /\ p.value = q.value
    <2>1. /\ c + lead + p.before = Past(t, c + lead)
          /\ Ahead(t, c + lead)[1] = p.name /\ Ahead(t, c + lead)[3] = p.value
      BY PieceAhead, Zenon
    <2>2. /\ c + lead + q.before = Past(t, c + lead)
          /\ Ahead(t, c + lead)[1] = q.name /\ Ahead(t, c + lead)[3] = q.value
      BY PieceAhead, Zenon
    <2>3. c + lead + p.before = c + lead + q.before
      BY <2>1, <2>2, Zenon
    <2>4. p.before = q.before
      BY <1>1, <1>2, <2>3
    <2>. QED  BY <2>1, <2>2, <2>4, Zenon
  <1>4. PICK d \in Nat : d = c + lead + p.before + 3
    BY <1>1, <1>2
  <1>5. /\ c + Width(p, lead) = d + p.after /\ c + Width(q, lead) = d + q.after
        /\ d + p.after <= m + 1 /\ d + q.after <= m + 1 /\ d >= 1
        /\ (p.after = 1 => t[d] = Blank) /\ (q.after = 1 => t[d] = Blank)
    <2>1. /\ c + Width(p, lead) <= Len(t) + 1 /\ c + Width(q, lead) <= Len(t) + 1
          /\ p.after = 1 => t[c + lead + p.before + 3] = Blank
          /\ q.after = 1 => t[c + lead + q.before + 3] = Blank
      BY DEF Stands
    <2>2. /\ c + (lead + p.before + 3 + p.after) <= m + 1
          /\ c + (lead + q.before + 3 + q.after) <= m + 1
      BY <1>1, <2>1 DEF Width
    <2>3. c \in Nat \ {0}
      BY <1>1
    <2>4. /\ c + (lead + p.before + 3 + p.after) = d + p.after
          /\ c + (lead + q.before + 3 + q.after) = d + q.after
      <3>1. c + (lead + p.before + 3 + p.after) = (c + lead + p.before + 3) + p.after
        <4>1. c \in Nat \ {0} /\ lead \in 0 .. 1 /\ p.before \in 0 .. 1 /\ p.after \in 0 .. 1
          BY <1>2, <2>3
        <4>. QED  BY <4>1, SMTT(30)
      <3>2. c + (lead + q.before + 3 + q.after) = (c + lead + q.before + 3) + q.after
        BY <1>2, <2>3, WidthIs, SMTT(30)
      <3>. QED  BY <1>3, <1>4, <3>1, <3>2
    <2>5. d + p.after <= m + 1 /\ d + q.after <= m + 1 /\ d >= 1
      <3>1. c + lead + p.before \in Nat
        BY <1>2, <2>3, WidthIs
      <3>. QED  BY <1>4, <2>2, <2>4, <3>1, SMTT(30)
    <2>6. (p.after = 1 => t[d] = Blank) /\ (q.after = 1 => t[d] = Blank)
      BY <1>3, <1>4, <2>1
    <2>. QED  BY <2>4, <2>5, <2>6 DEF Width
  <1>6. p.after = 1 <=> q.after = 1
    <2>1. ~(d <= m /\ t[d] = Blank) \/ p.after = 1
      BY <1>1, <1>2, <1>4, <1>5, RestFirst
    <2>2. ~(d <= m /\ t[d] = Blank) \/ q.after = 1
      BY <1>1, <1>2, <1>4, <1>5, RestFirst
    <2>. QED  BY <1>1, <1>4, <1>5, <2>1, <2>2
  <1>7. lead = 1 => Opens(p.kind) = Opens(q.kind)
    BY DEF Stands
  <1>. QED  BY <1>2, <1>3, <1>6, <1>7

-----------------------------------------------------------------------------
(* Pieces one after the other.                                               *)

(* Pieces begin within the header.                                           *)
LEMMA CutPlaces ==
  ASSUME NEW t \in Seq(Token), NEW ps, NEW cut, Derives(t, ps, cut)
  PROVE  /\ Len(ps) \in Nat /\ Len(t) \in Nat /\ ps \in Seq(Piece) /\ cut \in Seq(Nat \ {0})
         /\ \A i \in 1 .. Len(ps) : ps[i] \in Piece
         /\ \A i \in 1 .. Len(ps) + 1 : cut[i] \in 1 .. Len(t) + 1
  <1>1. /\ ps \in Seq(Piece) /\ cut \in Seq(Nat \ {0}) /\ Len(cut) = Len(ps) + 1
        /\ Len(ps) \in Nat /\ Len(t) \in Nat
    BY LenProperties DEF Derives
  <1>2. \A i \in 1 .. Len(ps) : ps[i] \in Piece
    BY <1>1, ElementOfSeq
  <1>3. ASSUME NEW i \in 1 .. Len(ps) + 1 PROVE cut[i] \in 1 .. Len(t) + 1
    <2>1. cut[i] \in Nat \ {0}
      BY <1>1, ElementOfSeq
    <2>2. CASE i = 1
      BY <1>1, <2>2 DEF Derives
    <2>3. CASE i # 1
      <3>1. PICK j \in 1 .. Len(ps) : i = j + 1
        <4>1. i - 1 \in 1 .. Len(ps) /\ i = (i - 1) + 1
          BY <1>1, <2>3
        <4>. QED  BY <4>1
      <3>2. cut[j + 1] = cut[j] + Width(ps[j], Lead(j)) /\ Stands(t, ps[j], Lead(j), cut[j])
        BY DEF Derives
      <3>3. cut[i] <= Len(t) + 1
        BY <3>1, <3>2 DEF Stands
      <3>. QED  BY <1>1, <2>1, <3>3
    <2>. QED  BY <2>2, <2>3
  <1>. QED  BY <1>1, <1>2, <1>3

LEMMA LeadIs == \A i : Lead(i) \in 0 .. 1
  BY DEF Lead

(* In a whole header no piece ends in front of whitespace.                   *)
LEMMA PiecesTakeBlanks ==
  ASSUME NEW t \in Seq(Token), NEW qs, NEW dut, Whole(t, qs, dut), NEW i \in 1 .. Len(qs)
  PROVE  ~Starts(From(t, dut[i] + Width(qs[i], Lead(i))), Blank)
  <1>1. Derives(t, qs, dut) /\ Len(qs) \in Nat /\ Len(t) \in Nat
    BY CutPlaces DEF Whole
  <1>2. dut[i + 1] = dut[i] + Width(qs[i], Lead(i)) /\ dut[i + 1] \in 1 .. Len(t) + 1
    <2>1. i + 1 \in 1 .. Len(qs) + 1
      BY <1>1
    <2>2. dut[i + 1] \in 1 .. Len(t) + 1
      BY <1>1, <2>1, CutPlaces
    <2>. QED  BY <1>1, <2>2 DEF Derives
  <1>3. CASE i = Len(qs)
    <2>1. dut[i + 1] = Len(t) + 1
      BY <1>3 DEF Whole
    <2>2. ~(dut[i + 1] <= Len(t))
      BY <1>1, <2>1
    <2>. QED  BY <1>2, <2>2, RestFirst
  <1>4. CASE i # Len(qs)
    <2>1. i + 1 \in 1 .. Len(qs) /\ Lead(i + 1) = 1
      BY <1>1, <1>4 DEF Lead
    <2>2. t[dut[i + 1]] = Opens(qs[i + 1].kind)
      BY <1>1, <2>1 DEF Derives, Stands
    <2>3. t[dut[i + 1]] # Blank
      BY <2>2, NoBlankWord DEF Opens
    <2>. QED  BY <1>2, <2>3, RestFirst
  <1>. QED  BY <1>3, <1>4

(* The place where the piece after ps ends.                                  *)
EndOf(ps, cut, p) == cut[Len(ps) + 1] + Width(p, Lead(Len(ps) + 1))

(* One more piece behind the others.                                         *)
LEMMA DerivesMore ==
  ASSUME NEW t \in Seq(Token), NEW ps, NEW cut, Derives(t, ps, cut), NEW p \in Piece,
         Stands(t, p, Lead(Len(ps) + 1), cut[Len(ps) + 1])
  PROVE  Derives(t, Append(ps, p), Append(cut, EndOf(ps, cut, p)))
  <1>. DEFINE m == Len(ps)
              e == EndOf(ps, cut, p)
              qs == Append(ps, p)
              dut == Append(cut, e)
  <1>1. /\ m \in Nat /\ ps \in Seq(Piece) /\ cut \in Seq(Nat \ {0})
        /\ Len(cut) = m + 1 /\ cut[1] = 1 /\ cut[m + 1] \in Nat \ {0}
    BY CutPlaces DEF Derives
  <1>2. e \in Nat \ {0}
    BY <1>1 DEF Piece, EndOf, Width, Lead
  <1>3. /\ qs \in Seq(Piece) /\ Len(qs) = m + 1
        /\ \A i \in 1 .. m : qs[i] = ps[i]
        /\ qs[m + 1] = p
    BY <1>1, AppendProperties
  <1>4. /\ dut \in Seq(Nat \ {0}) /\ Len(dut) = m + 2
        /\ \A i \in 1 .. m + 1 : dut[i] = cut[i]
        /\ dut[m + 2] = e
    <2>1. Len(cut) + 1 = m + 2 /\ \A i : i \in 1 .. m + 1 => i \in 1 .. Len(cut)
      BY <1>1
    <2>. HIDE DEF e
    <2>. QED  BY <1>1, <1>2, <2>1, AppendProperties
  <1>5. ASSUME NEW i \in 1 .. m + 1
        PROVE  Stands(t, qs[i], Lead(i), dut[i]) /\ dut[i + 1] = dut[i] + Width(qs[i], Lead(i))
    <2>. HIDE DEF qs, dut
    <2>1. CASE i = m + 1
      BY <1>1, <1>3, <1>4, <2>1, SMTT(30) DEF EndOf
    <2>2. CASE i # m + 1
      <3>1. i \in 1 .. m /\ i + 1 \in 1 .. m + 1
        BY <1>1, <2>2
      <3>2. Stands(t, ps[i], Lead(i), cut[i]) /\ cut[i + 1] = cut[i] + Width(ps[i], Lead(i))
        BY <3>1 DEF Derives
      <3>. QED  BY <1>3, <1>4, <3>1, <3>2
    <2>. QED  BY <2>1, <2>2
  <1>6. Len(dut) = Len(qs) + 1 /\ dut[1] = 1
    <2>. HIDE DEF qs, dut
    <2>. QED  BY <1>1, <1>3, <1>4
  <1>. HIDE DEF qs, dut
  <1>7. Derives(t, qs, dut)
    BY <1>3, <1>4, <1>5, <1>6 DEF Derives
  <1>. QED  BY <1>7 DEF qs, dut

(* The pieces ps are the first ones of qs.                                   *)
Agree(ps, cut, qs, dut) ==
    /\ Len(ps) <= Len(qs)
    /\ \A i \in 1 .. Len(ps) : ps[i] = qs[i]
    /\ \A i \in 1 .. Len(ps) + 1 : cut[i] = dut[i]

(* ... and there is no other piece, if its kind and its range are known.     *)
LEMMA AgreeMore ==
  ASSUME NEW t \in Seq(Token), NEW ps, NEW cut, Derives(t, ps, cut), NEW p \in Piece,
         Stands(t, p, Lead(Len(ps) + 1), cut[Len(ps) + 1]),
         ~Starts(From(t, EndOf(ps, cut, p)), Blank),
         NEW qs, NEW dut, Whole(t, qs, dut), Agree(ps, cut, qs, dut), Len(ps) < Len(qs),
         qs[Len(ps) + 1].kind = p.kind, qs[Len(ps) + 1].of = p.of
  PROVE  Agree(Append(ps, p), Append(cut, EndOf(ps, cut, p)), qs, dut)
  <1>1. PICK m \in Nat : m = Len(ps)
    BY CutPlaces
  <1>2. /\ Derives(t, qs, dut) /\ Len(qs) \in Nat /\ m + 1 \in 1 .. Len(qs)
        /\ qs[m + 1] \in Piece
    BY <1>1, CutPlaces, SMTT(30) DEF Whole
  <1>3. cut[m + 1] = dut[m + 1] /\ cut[m + 1] \in 1 .. Len(t) + 1
    BY <1>1, CutPlaces DEF Agree
  <1>4. /\ Stands(t, qs[m + 1], Lead(m + 1), cut[m + 1])
        /\ dut[m + 2] = cut[m + 1] + Width(qs[m + 1], Lead(m + 1))
    <2>1. m + 2 = (m + 1) + 1
      BY <1>1
    <2>. QED  BY <1>2, <1>3, <2>1 DEF Derives
  <1>5. ~Starts(From(t, cut[m + 1] + Width(qs[m + 1], Lead(m + 1))), Blank)
    BY <1>2, <1>3, PiecesTakeBlanks
  <1>6. p = qs[m + 1]
    <2>1. /\ p.before = qs[m + 1].before /\ p.name = qs[m + 1].name
          /\ p.value = qs[m + 1].value /\ p.after = qs[m + 1].after
      BY <1>1, <1>2, <1>3, <1>4, <1>5, LeadIs, OnePiece DEF EndOf
    <2>. QED  BY <1>1, <1>2, <2>1 DEF Piece
  <1>7. EndOf(ps, cut, p) = dut[m + 2]
    BY <1>1, <1>4, <1>6 DEF EndOf
  <1>8. ps \in Seq(Piece) /\ cut \in Seq(Nat \ {0}) /\ Len(cut) = m + 1
    BY <1>1 DEF Derives
  <1>9. /\ Len(Append(ps, p)) = m + 1 /\ Append(ps, p)[m + 1] = p
        /\ \A i \in 1 .. m : Append(ps, p)[i] = ps[i]
    BY <1>1, <1>8, AppendProperties
  <1>10. /\ Append(cut, EndOf(ps, cut, p))[m + 2] = EndOf(ps, cut, p)
         /\ \A i \in 1 .. m + 1 : Append(cut, EndOf(ps, cut, p))[i] = cut[i]
    <2>1. EndOf(ps, cut, p) \in Nat \ {0} /\ Len(cut) + 1 = m + 2
      <3>1. m + 2 \in 1 .. Len(qs) + 1
        BY <1>2
      <3>. QED  BY <1>2, <1>7, <1>8, <3>1, CutPlaces, SMTT(30)
    <2>. QED  BY <1>8, <2>1, AppendProperties
  <1>11. ASSUME NEW i \in 1 .. m + 1 PROVE Append(ps, p)[i] = qs[i]
    BY <1>1, <1>6, <1>9 DEF Agree
  <1>12. ASSUME NEW i \in 1 .. m + 2 PROVE Append(cut, EndOf(ps, cut, p))[i] = dut[i]
    <2>1. CASE i = m + 2
      BY <1>7, <1>10, <2>1
    <2>2. CASE i # m + 2
      <3>1. i \in 1 .. m + 1 /\ i \in 1 .. Len(ps) + 1
        BY <1>1, <2>2
      <3>. QED  BY <1>10, <3>1 DEF Agree
    <2>. QED  BY <2>1, <2>2
  <1>13. m + 1 <= Len(qs) /\ (m + 1) + 1 = m + 2
    BY <1>2
  <1>. QED  BY <1>9, <1>11, <1>12, <1>13 DEF Agree

-----------------------------------------------------------------------------
(* What one more piece says.                                                 *)

LEMMA MorePieces ==
  ASSUME NEW ps \in Seq(Piece), NEW p \in Piece
  PROVE  /\ Len(ps) \in Nat /\ Len(Append(ps, p)) = Len(ps) + 1
         /\ Append(ps, p) \in Seq(Piece) /\ Append(ps, p) # <<>>
         /\ \A i \in 1 .. Len(ps) : Append(ps, p)[i] = ps[i]
         /\ Append(ps, p)[Len(ps) + 1] = p
         /\ Count(Append(ps, p)) = p.of
  <1>1. /\ Len(ps) \in Nat /\ Len(Append(ps, p)) = Len(ps) + 1
        /\ Append(ps, p) \in Seq(Piece) /\ Append(ps, p) # <<>>
        /\ \A i \in 1 .. Len(ps) : Append(ps, p)[i] = ps[i]
        /\ Append(ps, p)[Len(ps) + 1] = p
    BY LenProperties, AppendProperties
  <1>. QED  BY <1>1 DEF Count

(* Which pieces belong to a range, when there is one more.                   *)
LEMMA OfMore ==
  ASSUME NEW ps \in Seq(Piece), NEW p \in Piece, NEW j, NEW kind
  PROVE  /\ Of(Append(ps, p), j, kind) =
              Of(ps, j, kind) \cup (IF p.kind = kind /\ p.of = j THEN {Len(ps) + 1} ELSE {})
         /\ Of(ps, j, kind) \subseteq 1 .. Len(ps)
         /\ Len(ps) + 1 \notin Of(ps, j, kind)
         /\ \A i \in Of(ps, j, kind) : Append(ps, p)[i] = ps[i]
  <1>1. Len(ps) \in Nat
    BY MorePieces
  <1>2. Of(ps, j, kind) \subseteq 1 .. Len(ps) /\ Len(ps) + 1 \notin Of(ps, j, kind)
    BY <1>1 DEF Of
  <1>3. \A i \in 1 .. Len(ps) + 1 : i \in 1 .. Len(ps) \/ i = Len(ps) + 1
    BY <1>1
  <1>4. \A i \in 1 .. Len(ps) : i \in 1 .. Len(ps) + 1
    BY <1>1
  <1>5. Len(ps) + 1 \in 1 .. Len(ps) + 1
    BY <1>1
  <1>6. ASSUME NEW i
        PROVE  i \in Of(Append(ps, p), j, kind) <=>
                 i \in Of(ps, j, kind) \cup (IF p.kind = kind /\ p.of = j THEN {Len(ps) + 1} ELSE {})
    <2>1. i \in Of(Append(ps, p), j, kind) <=>
            /\ i \in 1 .. Len(ps) + 1
            /\ Append(ps, p)[i].kind = kind /\ Append(ps, p)[i].of = j
      BY MorePieces DEF Of
    <2>2. CASE i \in 1 .. Len(ps)
      <3>1. Append(ps, p)[i] = ps[i] /\ i # Len(ps) + 1 /\ i \in 1 .. Len(ps) + 1
        BY <1>1, <2>2, MorePieces
      <3>. QED  BY <2>1, <2>2, <3>1 DEF Of
    <2>3. CASE i = Len(ps) + 1
      <3>1. Append(ps, p)[i] = p /\ i \notin 1 .. Len(ps)
        BY <1>1, <2>3, MorePieces
      <3>. QED  BY <1>2, <1>5, <2>1, <2>3, <3>1
    <2>4. CASE i \notin 1 .. Len(ps) /\ i # Len(ps) + 1
      BY <1>2, <1>3, <2>1, <2>4
    <2>. QED  BY <2>2, <2>3, <2>4
  <1>7. \A i \in Of(ps, j, kind) : Append(ps, p)[i] = ps[i]
    BY <1>2, MorePieces
  <1>. QED  BY <1>2, <1>6, <1>7

LEMMA OfMember ==
  ASSUME NEW ps \in Seq(Piece), NEW p \in Piece
  PROVE  \A j, kind, i : i \in Of(Append(ps, p), j, kind) <=>
            i \in Of(ps, j, kind) \/ (p.kind = kind /\ p.of = j /\ i = Len(ps) + 1)
  <1>. SUFFICES ASSUME NEW j, NEW kind, NEW i
                PROVE  i \in Of(Append(ps, p), j, kind) <=>
                         i \in Of(ps, j, kind) \/ (p.kind = kind /\ p.of = j /\ i = Len(ps) + 1)
    OBVIOUS
  <1>1. Of(Append(ps, p), j, kind) =
          Of(ps, j, kind) \cup (IF p.kind = kind /\ p.of = j THEN {Len(ps) + 1} ELSE {})
    BY OfMore
  <1>. QED  BY <1>1

(* The pieces of a kind that a range has stay its pieces of that kind.       *)
PiecesKept(ps, qs, j, kind) ==
    /\ Of(qs, j, kind) = Of(ps, j, kind)
    /\ \A i \in Of(ps, j, kind) : qs[i] = ps[i]

LEMMA OfKept ==
  ASSUME NEW ps \in Seq(Piece), NEW p \in Piece, NEW j, NEW kind, p.kind # kind \/ p.of # j
  PROVE  PiecesKept(ps, Append(ps, p), j, kind)
  <1>1. Of(Append(ps, p), j, kind) =
          Of(ps, j, kind) \cup (IF p.kind = kind /\ p.of = j THEN {Len(ps) + 1} ELSE {})
    BY OfMore
  <1>2. Of(Append(ps, p), j, kind) = Of(ps, j, kind)
    BY <1>1
  <1>3. \A i \in Of(ps, j, kind) : Append(ps, p)[i] = ps[i]
    BY OfMore
  <1>. QED  BY <1>2, <1>3, Zenon DEF PiecesKept

(* A piece says nothing of the other ranges.                                 *)
LEMMA OthersSay ==
  ASSUME NEW ps \in Seq(Piece), NEW p \in Piece, NEW j, p.of # j, NEW r, Says(ps, j, r)
  PROVE  Says(Append(ps, p), j, r)
  <1>. DEFINE qs == Append(ps, p)
  <1>k. \A kind : PiecesKept(ps, qs, j, kind)
    BY OfKept, Zenon
  <1>0. \A kind : /\ Of(qs, j, kind) = Of(ps, j, kind)
                  /\ \A i \in Of(ps, j, kind) : qs[i] = ps[i]
    BY <1>k, Zenon DEF PiecesKept
  <1>1. /\ Of(qs, j, "type") = Of(ps, j, "type")
        /\ Of(qs, j, "parameter") = Of(ps, j, "parameter")
        /\ Of(qs, j, "weight") = Of(ps, j, "weight")
    BY <1>0, Zenon
  <1>2. /\ \A i \in Of(ps, j, "type") : qs[i] = ps[i]
        /\ \A i \in Of(ps, j, "parameter") : qs[i] = ps[i]
        /\ \A i \in Of(ps, j, "weight") : qs[i] = ps[i]
    BY <1>0, Zenon
  <1>3. Len(qs) = Len(ps) + 1 /\ Len(ps) \in Nat
    BY MorePieces
  <1>. HIDE DEF qs
  <1>4. LastOf(qs, Of(ps, j, "parameter")) = LastOf(ps, Of(ps, j, "parameter"))
    <2>. DEFINE I == Of(ps, j, "parameter")
    <2>1. {l \in I : \A m \in I : m > l => qs[m].name # qs[l].name} =
            {l \in I : \A m \in I : m > l => ps[m].name # ps[l].name}
      BY <1>2
    <2>. DEFINE L == {l \in I : \A m \in I : m > l => ps[m].name # ps[l].name}
    <2>2. \A i \in L : qs[i] = ps[i]
      BY <1>2
    <2>3. LastOf(qs, I) = {<<qs[i].name, qs[i].value>> : i \in L}
      BY <2>1 DEF LastOf
    <2>4. LastOf(ps, I) = {<<ps[i].name, ps[i].value>> : i \in L}
      BY DEF LastOf
    <2>5. {<<qs[i].name, qs[i].value>> : i \in L} = {<<ps[i].name, ps[i].value>> : i \in L}
      <3>. HIDE DEF L
      <3>. QED  BY <2>2
    <2>. QED  BY <2>3, <2>4, <2>5
  <1>5. Types(qs, j, r)
    <2>1. PICK i \in 1 .. Len(ps) : /\ Of(ps, j, "type") = {i} /\ r.type = ps[i].name
                                    /\ r.subtype = ps[i].value
      BY DEF Says, Types
    <2>2. i \in 1 .. Len(qs) /\ qs[i] = ps[i]
      BY <1>2, <1>3, <2>1
    <2>3. r.parameters = LastOf(qs, Of(qs, j, "parameter"))
      BY <1>1, <1>4 DEF Says, Types
    <2>. QED  BY <1>1, <2>1, <2>2, <2>3 DEF Types
  <1>6. Says(qs, j, r)
    BY <1>1, <1>2, <1>5 DEF Says
  <1>. QED  BY <1>6 DEF qs

(* A type begins a range.                                                    *)
LEMMA TypeSays ==
  ASSUME NEW ps \in Seq(Piece), NEW p \in Piece, p.kind = "type",
         \A i \in 1 .. Len(ps) : ps[i].of # p.of
  PROVE  Says(Append(ps, p), p.of, [type |-> p.name, subtype |-> p.value,
                                    parameters |-> {}, weight |-> 1000])
  <1>. DEFINE qs == Append(ps, p)
              r == [type |-> p.name, subtype |-> p.value, parameters |-> {}, weight |-> 1000]
  <1>1. /\ Of(ps, p.of, "type") = {} /\ Of(ps, p.of, "parameter") = {}
        /\ Of(ps, p.of, "weight") = {}
    BY DEF Of
  <1>2. /\ Of(qs, p.of, "type") = {Len(ps) + 1} /\ Of(qs, p.of, "parameter") = {}
        /\ Of(qs, p.of, "weight") = {}
    BY <1>1, OfMore
  <1>3. Len(ps) + 1 \in 1 .. Len(qs) /\ qs[Len(ps) + 1] = p
    BY MorePieces
  <1>. HIDE DEF qs
  <1>4. LastOf(qs, {}) = {}
    BY DEF LastOf
  <1>5. Types(qs, p.of, r)
    BY <1>2, <1>3, <1>4, Zenon DEF Types
  <1>6. Says(qs, p.of, r)
    BY <1>2, <1>5 DEF Says
  <1>. QED  BY <1>6 DEF qs

(* An assignment to the map keeps the last value for every name.             *)
LEMMA PutIsLast ==
  ASSUME NEW ps \in Seq(Piece), NEW p \in Piece, NEW I \in SUBSET (1 .. Len(ps))
  PROVE  LastOf(Append(ps, p), I \cup {Len(ps) + 1}) = Put(LastOf(ps, I), p.name, p.value)
  <1>. DEFINE qs == Append(ps, p)
              m == Len(ps)
              J == I \cup {m + 1}
              L == {l \in I : \A x \in I : x > l => ps[x].name # ps[l].name}
              M == {l \in J : \A x \in J : x > l => qs[x].name # qs[l].name}
  <1>1. /\ m \in Nat /\ qs[m + 1] = p /\ \A i \in 1 .. m : qs[i] = ps[i]
    BY MorePieces
  <1>2. \A i \in I : i \in 1 .. m /\ qs[i] = ps[i] /\ m + 1 > i
    BY <1>1
  <1>. HIDE DEF qs
  <1>3. M = {l \in L : ps[l].name # p.name} \cup {m + 1}
    <2>1. m + 1 \in M
      BY <1>1, <1>2
    <2>2. ASSUME NEW l \in M, l # m + 1 PROVE l \in L /\ ps[l].name # p.name
      BY <1>1, <1>2, <2>2
    <2>3. ASSUME NEW l \in L, ps[l].name # p.name PROVE l \in M
      BY <1>1, <1>2, <2>3
    <2>. HIDE DEF L, M
    <2>. QED  BY <2>1, <2>2, <2>3
  <1>4. LastOf(qs, J) = {<<qs[i].name, qs[i].value>> : i \in M}
    BY DEF LastOf
  <1>5. LastOf(ps, I) = {<<ps[i].name, ps[i].value>> : i \in L}
    BY DEF LastOf
  <1>6. Put(LastOf(ps, I), p.name, p.value) =
          {x \in LastOf(ps, I) : x[1] # p.name} \cup {<<p.name, p.value>>}
    BY DEF Put
  <1>7. L \subseteq I
    OBVIOUS
  <1>. HIDE DEF L, M, m
  <1>8. {<<qs[i].name, qs[i].value>> : i \in M} =
          {x \in {<<ps[i].name, ps[i].value>> : i \in L} : x[1] # p.name} \cup {<<p.name, p.value>>}
    <2>1. ASSUME NEW i \in M
          PROVE  <<qs[i].name, qs[i].value>> \in
                   {x \in {<<ps[l].name, ps[l].value>> : l \in L} : x[1] # p.name} \cup {<<p.name, p.value>>}
      <3>1. CASE i = m + 1
        BY <1>1, <3>1
      <3>2. CASE i \in L /\ ps[i].name # p.name
        <4>1. qs[i] = ps[i]
          BY <1>2, <1>7, <3>2
        <4>. QED  BY <3>2, <4>1
      <3>. QED  BY <1>3, <3>1, <3>2
    <2>2. <<p.name, p.value>> \in {<<qs[i].name, qs[i].value>> : i \in M}
      BY <1>1, <1>3
    <2>3. ASSUME NEW l \in L, ps[l].name # p.name
          PROVE  <<ps[l].name, ps[l].value>> \in {<<qs[i].name, qs[i].value>> : i \in M}
      <3>1. qs[l] = ps[l] /\ l \in M
        BY <1>2, <1>3, <1>7, <2>3
      <3>. QED  BY <3>1
    <2>4. ASSUME NEW x \in {x \in {<<ps[l].name, ps[l].value>> : l \in L} : x[1] # p.name}
          PROVE  x \in {<<qs[i].name, qs[i].value>> : i \in M}
      <3>1. PICK l \in L : x = <<ps[l].name, ps[l].value>>
        BY <2>4
      <3>2. ps[l].name # p.name
        BY <2>4, <3>1
      <3>. QED  BY <2>3, <3>1, <3>2
    <2>. QED  BY <2>1, <2>2, <2>4
  <1>. QED  BY <1>4, <1>5, <1>6, <1>8 DEF qs, m

(* Whatever it is but a type, a piece leaves the type of its range alone.    *)
LEMMA TypeStays ==
  ASSUME NEW ps \in Seq(Piece), NEW p \in Piece, p.kind # "type", NEW j, NEW r, Says(ps, j, r)
  PROVE  \E i \in 1 .. Len(Append(ps, p)) :
            /\ Of(Append(ps, p), j, "type") = {i}
            /\ r.type = Append(ps, p)[i].name /\ r.subtype = Append(ps, p)[i].value
  <1>1. PICK i \in 1 .. Len(ps) : /\ Of(ps, j, "type") = {i} /\ r.type = ps[i].name
                                  /\ r.subtype = ps[i].value
    BY DEF Says, Types
  <1>2. Of(Append(ps, p), j, "type") = {i}
    BY <1>1, OfMore
  <1>3. i \in 1 .. Len(Append(ps, p)) /\ Append(ps, p)[i] = ps[i]
    BY MorePieces
  <1>. QED  BY <1>1, <1>2, <1>3

(* ... and whatever it is but a parameter, the parameters.                   *)
LEMMA ParametersStay ==
  ASSUME NEW ps \in Seq(Piece), NEW p \in Piece, p.kind # "parameter", NEW j
  PROVE  LastOf(Append(ps, p), Of(Append(ps, p), j, "parameter")) = LastOf(ps, Of(ps, j, "parameter"))
  <1>. DEFINE qs == Append(ps, p)
              I == Of(ps, j, "parameter")
              L == {l \in I : \A m \in I : m > l => ps[m].name # ps[l].name}
  <1>k. PiecesKept(ps, qs, j, "parameter")
    BY OfKept, Zenon
  <1>1. Of(qs, j, "parameter") = I /\ \A i \in I : qs[i] = ps[i]
    BY <1>k, Zenon DEF PiecesKept
  <1>. HIDE DEF qs, I
  <1>2. LastOf(qs, I) = {<<qs[i].name, qs[i].value>> :
                            i \in {l \in I : \A m \in I : m > l => qs[m].name # qs[l].name}}
    BY DEF LastOf
  <1>3. {l \in I : \A m \in I : m > l => qs[m].name # qs[l].name} = L
    BY <1>1
  <1>4. LastOf(ps, I) = {<<ps[i].name, ps[i].value>> : i \in L}
    BY DEF LastOf
  <1>5. \A i \in L : qs[i] = ps[i]
    BY <1>1
  <1>. HIDE DEF L
  <1>6. {<<qs[i].name, qs[i].value>> : i \in L} = {<<ps[i].name, ps[i].value>> : i \in L}
    BY <1>5
  <1>7. LastOf(qs, Of(qs, j, "parameter")) = LastOf(ps, I)
    BY <1>1, <1>2, <1>3, <1>4, <1>6
  <1>. QED  BY <1>7 DEF qs, I

(* What a parameter, a weight and an extension add to the range.             *)
LEMMA ParameterSays ==
  ASSUME NEW ps \in Seq(Piece), NEW p \in Piece, p.kind = "parameter",
         NEW r \in MediaRange, Says(ps, p.of, r)
  PROVE  Says(Append(ps, p), p.of, [r EXCEPT !.parameters = Put(@, p.name, p.value)])
  <1>. DEFINE qs == Append(ps, p)
              q == [r EXCEPT !.parameters = Put(@, p.name, p.value)]
  <1>1. /\ q.type = r.type /\ q.subtype = r.subtype /\ q.weight = r.weight
        /\ q.parameters = Put(r.parameters, p.name, p.value)
    BY DEF MediaRange
  <1>. HIDE DEF q
  <1>2. q.parameters = LastOf(qs, Of(qs, p.of, "parameter"))
    <2>1. Of(qs, p.of, "parameter") = Of(ps, p.of, "parameter") \cup {Len(ps) + 1}
      BY OfMore
    <2>2. Of(ps, p.of, "parameter") \in SUBSET (1 .. Len(ps))
      BY OfMore
    <2>3. r.parameters = LastOf(ps, Of(ps, p.of, "parameter"))
      BY DEF Says, Types
    <2>. QED  BY <1>1, <2>1, <2>2, <2>3, PutIsLast
  <1>3. Types(qs, p.of, q)
    BY <1>1, <1>2, TypeStays DEF Types
  <1>4. /\ Of(qs, p.of, "weight") = Of(ps, p.of, "weight")
        /\ \A i \in Of(ps, p.of, "weight") : qs[i] = ps[i]
    <2>1. \A i : i \in Of(qs, p.of, "weight") <=> i \in Of(ps, p.of, "weight")
      <3>1. p.kind # "weight"
        OBVIOUS
      <3>. QED  BY <3>1, OfMember
    <2>2. \A i \in Of(ps, p.of, "weight") : qs[i] = ps[i]
      BY OfMore
    <2>. QED  BY <2>1, <2>2
  <1>. HIDE DEF qs
  <1>5. Says(qs, p.of, q)
    BY <1>1, <1>3, <1>4 DEF Says
  <1>. QED  BY <1>5 DEF q, qs

LEMMA WeightSays ==
  ASSUME NEW ps \in Seq(Piece), NEW p \in Piece, p.kind = "weight",
         Of(ps, p.of, "weight") = {}, NEW r \in MediaRange, Says(ps, p.of, r)
  PROVE  Says(Append(ps, p), p.of, [r EXCEPT !.weight = Weight[p.value]])
  <1>. DEFINE qs == Append(ps, p)
              q == [r EXCEPT !.weight = Weight[p.value]]
  <1>1. /\ q.type = r.type /\ q.subtype = r.subtype /\ q.weight = Weight[p.value]
        /\ q.parameters = r.parameters
    BY DEF MediaRange
  <1>. HIDE DEF q
  <1>2. q.parameters = LastOf(qs, Of(qs, p.of, "parameter"))
    BY <1>1, ParametersStay DEF Says, Types
  <1>3. Types(qs, p.of, q)
    BY <1>1, <1>2, TypeStays DEF Types
  <1>4. Of(qs, p.of, "weight") = {Len(ps) + 1} /\ qs[Len(ps) + 1] = p
    BY OfMore, MorePieces
  <1>. HIDE DEF qs
  <1>5. Of(qs, p.of, "weight") # {} /\ \A i \in Of(qs, p.of, "weight") : q.weight = Weight[qs[i].value]
    BY <1>1, <1>4
  <1>6. Says(qs, p.of, q)
    BY <1>3, <1>5 DEF Says
  <1>. QED  BY <1>6 DEF q, qs

LEMMA ExtensionSays ==
  ASSUME NEW ps \in Seq(Piece), NEW p \in Piece, p.kind = "extension",
         NEW r, Says(ps, p.of, r)
  PROVE  Says(Append(ps, p), p.of, r)
  <1>. DEFINE qs == Append(ps, p)
  <1>1. Types(qs, p.of, r)
    BY TypeStays, ParametersStay DEF Says, Types
  <1>2. /\ Of(qs, p.of, "weight") = Of(ps, p.of, "weight")
        /\ \A i \in Of(ps, p.of, "weight") : qs[i] = ps[i]
    <2>1. \A i : i \in Of(qs, p.of, "weight") <=> i \in Of(ps, p.of, "weight")
      <3>1. p.kind # "weight"
        OBVIOUS
      <3>. QED  BY <3>1, OfMember
    <2>2. \A i \in Of(ps, p.of, "weight") : qs[i] = ps[i]
      BY OfMore
    <2>. QED  BY <2>1, <2>2
  <1>. HIDE DEF qs
  <1>3. Says(qs, p.of, r)
    BY <1>1, <1>2 DEF Says
  <1>. QED  BY <1>3 DEF qs

(* No two ranges are said by the same pieces.                                *)
LEMMA OneMeaning ==
  ASSUME NEW ps, NEW j, NEW r \in MediaRange, NEW q \in MediaRange,
         Says(ps, j, r), Says(ps, j, q)
  PROVE  r = q
  <1>1. r.type = q.type /\ r.subtype = q.subtype
    <2>1. PICK i \in 1 .. Len(ps) : /\ Of(ps, j, "type") = {i} /\ r.type = ps[i].name
                                    /\ r.subtype = ps[i].value
      BY DEF Says, Types
    <2>2. PICK l \in 1 .. Len(ps) : /\ Of(ps, j, "type") = {l} /\ q.type = ps[l].name
                                    /\ q.subtype = ps[l].value
      BY DEF Says, Types
    <2>3. i = l
      BY <2>1, <2>2
    <2>. QED  BY <2>1, <2>2, <2>3
  <1>2. r.parameters = q.parameters
    BY DEF Says, Types
  <1>3. r.weight = q.weight
    BY DEF Says
  <1>. QED  BY <1>1, <1>2, <1>3 DEF MediaRange

-----------------------------------------------------------------------------
(* Reading an Accept header, piece by piece.                                 *)

(* The pieces ps are the beginning of the header t, and there is no other    *)
(* way to begin with as much of it.                                          *)
Begins(t, ps, cut) ==
    /\ Derives(t, ps, cut) /\ AcceptGrammar(ps)
    /\ \A i \in 1 .. Len(ps) : ps[i].of <= Count(ps)
    /\ \A qs, dut : Whole(t, qs, dut) /\ AcceptGrammar(qs) => Agree(ps, cut, qs, dut)

(* The number of ranges begun is the range of the last piece.                *)
LEMMA CountIs ==
  ASSUME NEW ps \in Seq(Piece)
  PROVE  /\ ps = <<>> <=> Len(ps) = 0
         /\ ps = <<>> => Count(ps) = 0
         /\ ps # <<>> => /\ Len(ps) \in 1 .. Len(ps) /\ ps[Len(ps)] \in Piece
                         /\ Count(ps) = ps[Len(ps)].of /\ Count(ps) \in Nat \ {0}
  <1>1. Len(ps) \in Nat /\ (ps = <<>> <=> Len(ps) = 0)
    BY EmptySeq, LenProperties
  <1>2. ASSUME ps # <<>>
        PROVE  /\ Len(ps) \in 1 .. Len(ps) /\ ps[Len(ps)] \in Piece
               /\ Count(ps) = ps[Len(ps)].of /\ Count(ps) \in Nat \ {0}
    <2>1. Len(ps) \in 1 .. Len(ps)
      BY <1>1, <1>2
    <2>2. ps[Len(ps)] \in Piece
      BY <2>1, ElementOfSeq
    <2>. QED  BY <1>2, <2>1, <2>2 DEF Count, Piece
  <1>. QED  BY <1>1, <1>2 DEF Count

(* The grammar looks at a piece and the one before it.                       *)
LEMMA FitsMore ==
  ASSUME NEW ps \in Seq(Piece), AcceptGrammar(ps), NEW p \in Piece,
         Fits(Append(ps, p), Len(ps) + 1)
  PROVE  AcceptGrammar(Append(ps, p))
  <1>. DEFINE qs == Append(ps, p)
  <1>1. PICK m \in Nat : m = Len(ps)
    BY MorePieces
  <1>2. Len(qs) = m + 1 /\ \A i \in 1 .. m : qs[i] = ps[i]
    BY <1>1, MorePieces
  <1>3. Fits(qs, m + 1)
    BY <1>1
  <1>. HIDE DEF qs
  <1>4. ASSUME NEW i \in 1 .. m PROVE Fits(qs, i)
    <2>1. Fits(ps, i) /\ qs[i] = ps[i]
      BY <1>1, <1>2 DEF AcceptGrammar
    <2>2. CASE i = 1
      BY <2>1, <2>2 DEF Fits
    <2>3. CASE i # 1
      <3>1. i - 1 \in 1 .. m
        BY <1>1, <2>3
      <3>2. qs[i - 1] = ps[i - 1]
        BY <1>2, <3>1
      <3>. QED  BY <2>1, <3>2 DEF Fits
    <2>. QED  BY <2>2, <2>3
  <1>5. \A i \in 1 .. m + 1 : i \in 1 .. m \/ i = m + 1
    BY <1>1
  <1>6. AcceptGrammar(qs)
    BY <1>2, <1>3, <1>4, <1>5 DEF AcceptGrammar
  <1>. QED  BY <1>6 DEF qs

(* Which piece comes next in the grammar shows in what opens it, in its name *)
(* and in the piece before.                                                  *)
LEMMA KindIsKnown ==
  ASSUME NEW qs \in Seq(Piece), NEW ps \in Seq(Piece), NEW i \in Nat \ {0},
         i <= Len(ps), i <= Len(qs), Fits(ps, i), Fits(qs, i),
         i > 1 => ps[i - 1] = qs[i - 1],
         ps[i].name = qs[i].name, i > 1 => Opens(ps[i].kind) = Opens(qs[i].kind)
  PROVE  ps[i].kind = qs[i].kind /\ ps[i].of = qs[i].of
  <1>1. ps[i] \in Piece /\ qs[i] \in Piece
    <2>1. i \in 1 .. Len(ps) /\ i \in 1 .. Len(qs)
      BY LenProperties
    <2>. QED  BY <2>1, ElementOfSeq
  <1>2. CASE i = 1
    BY <1>2 DEF Fits
  <1>3. CASE i # 1
    <2>1. i > 1 /\ ps[i - 1] = qs[i - 1] /\ Opens(ps[i].kind) = Opens(qs[i].kind)
      BY <1>3
    <2>2. ps[i].kind = "type" <=> qs[i].kind = "type"
      BY <2>1, NoBlankWord DEF Opens
    <2>3. CASE ps[i].kind = "type"
      BY <1>3, <2>1, <2>2, <2>3 DEF Fits
    <2>4. CASE ps[i].kind # "type"
      <3>1. ps[i].of = qs[i].of
        BY <2>1, <2>2, <2>4 DEF Fits
      <3>2. /\ ps[i].kind \in {"parameter", "weight", "extension"}
            /\ qs[i].kind \in {"parameter", "weight", "extension"}
        BY <1>1, <2>2, <2>4 DEF Piece, Kinds
      <3>. DEFINE last == ps[i - 1]
      <3>3. /\ ps[i].kind \in {"parameter", "weight"} => last.kind \in {"type", "parameter"}
            /\ ps[i].kind = "parameter" => ps[i].name # "q"
            /\ ps[i].kind = "weight" => ps[i].name = "q"
            /\ ps[i].kind = "extension" => last.kind \in {"weight", "extension"}
        BY <2>4 DEF Fits
      <3>4. /\ qs[i].kind \in {"parameter", "weight"} => last.kind \in {"type", "parameter"}
            /\ qs[i].kind = "parameter" => qs[i].name # "q"
            /\ qs[i].kind = "weight" => qs[i].name = "q"
            /\ qs[i].kind = "extension" => last.kind \in {"weight", "extension"}
        BY <2>1, <2>2, <2>4 DEF Fits
      <3>. HIDE DEF last
      <3>5. last.kind \in {"type", "parameter"} => last.kind \notin {"weight", "extension"}
        OBVIOUS
      <3>. QED  BY <3>1, <3>2, <3>3, <3>4, <3>5
    <2>. QED  BY <2>3, <2>4
  <1>. QED  BY <1>2, <1>3

(* A header that goes on has another piece.                                  *)
LEMMA AnotherPiece ==
  ASSUME NEW t \in Seq(Token), NEW ps, NEW cut, Derives(t, ps, cut),
         NEW qs, NEW dut, Whole(t, qs, dut), Agree(ps, cut, qs, dut)
  PROVE  /\ cut[Len(ps) + 1] <= Len(t) <=> Len(ps) < Len(qs)
         /\ Len(ps) < Len(qs) =>
              /\ qs[Len(ps) + 1] \in Piece
              /\ Stands(t, qs[Len(ps) + 1], Lead(Len(ps) + 1), cut[Len(ps) + 1])
  <1>1. Derives(t, qs, dut) /\ dut[Len(qs) + 1] = Len(t) + 1
    BY DEF Whole
  <1>2. /\ Len(ps) \in Nat /\ Len(qs) \in Nat /\ Len(t) \in Nat
        /\ cut[Len(ps) + 1] \in 1 .. Len(t) + 1
        /\ \A i \in 1 .. Len(qs) : qs[i] \in Piece
    <2>1. Len(ps) \in Nat
      BY CutPlaces
    <2>2. Len(ps) + 1 \in 1 .. Len(ps) + 1
      BY <2>1
    <2>3. cut[Len(ps) + 1] \in 1 .. Len(t) + 1
      BY <2>2, CutPlaces
    <2>. QED  BY <1>1, <2>1, <2>3, CutPlaces
  <1>3. cut[Len(ps) + 1] = dut[Len(ps) + 1] /\ Len(ps) <= Len(qs)
    <2>1. Len(ps) + 1 \in 1 .. Len(ps) + 1
      BY <1>2
    <2>. QED  BY <2>1 DEF Agree
  <1>4. CASE Len(ps) = Len(qs)
    BY <1>1, <1>2, <1>3, <1>4
  <1>5. CASE Len(ps) < Len(qs)
    <2>1. Len(ps) + 1 \in 1 .. Len(qs)
      BY <1>2, <1>5
    <2>2. Stands(t, qs[Len(ps) + 1], Lead(Len(ps) + 1), cut[Len(ps) + 1])
      BY <1>1, <1>3, <2>1 DEF Derives
    <2>3. qs[Len(ps) + 1] \in Piece
      BY <1>2, <2>1
    <2>4. cut[Len(ps) + 1] + Lead(Len(ps) + 1) <= Len(t)
      BY <1>2, <2>2, <2>3, LeadIs, PieceAhead
    <2>5. cut[Len(ps) + 1] <= Len(t)
      BY <1>2, <2>4 DEF Lead
    <2>. QED  BY <1>5, <2>2, <2>3, <2>5
  <1>. QED  BY <1>2, <1>3, <1>4, <1>5

(* The next piece of the grammar is the only one there can be.               *)
LEMMA BeginsMore ==
  ASSUME NEW t \in Seq(Token), NEW ps, NEW cut, Begins(t, ps, cut), NEW p \in Piece,
         Stands(t, p, Lead(Len(ps) + 1), cut[Len(ps) + 1]),
         ~Starts(From(t, EndOf(ps, cut, p)), Blank),
         Fits(Append(ps, p), Len(ps) + 1)
  PROVE  Begins(t, Append(ps, p), Append(cut, EndOf(ps, cut, p)))
  <1>1. Derives(t, ps, cut) /\ ps \in Seq(Piece) /\ AcceptGrammar(ps)
    BY DEF Begins, Derives
  <1>2. PICK m \in Nat : m = Len(ps)
    BY <1>1, CutPlaces
  <1>3. /\ Derives(t, Append(ps, p), Append(cut, EndOf(ps, cut, p)))
        /\ AcceptGrammar(Append(ps, p))
    BY <1>1, DerivesMore, FitsMore
  <1>m. /\ Len(Append(ps, p)) = m + 1 /\ Append(ps, p)[m + 1] = p
        /\ Append(ps, p) \in Seq(Piece) /\ Count(Append(ps, p)) = p.of
        /\ \A i \in 1 .. m : Append(ps, p)[i] = ps[i]
    BY <1>1, <1>2, MorePieces
  <1>4. ASSUME NEW i \in 1 .. m + 1 PROVE Append(ps, p)[i].of <= p.of
    <2>1. p.of \in Nat
      BY DEF Piece
    <2>2. CASE i = m + 1
      BY <1>m, <2>1, <2>2
    <2>3. CASE i # m + 1
      <3>1. i \in 1 .. m /\ m # 0 /\ m + 1 - 1 = m
        BY <2>3
      <3>2. Append(ps, p)[i] = ps[i] /\ Append(ps, p)[m] = ps[m]
        BY <1>m, <3>1
      <3>3. Count(ps) = ps[m].of /\ Count(ps) \in Nat /\ ps[i].of <= Count(ps) /\ ps[i].of \in Nat
        <4>1. ps # <<>> /\ ps[i] \in Piece
          BY <1>1, <1>2, <3>1, CountIs, ElementOfSeq
        <4>. QED  BY <1>1, <1>2, <3>1, <4>1, CountIs DEF Begins, Piece
      <3>4. p.of = ps[m].of \/ p.of = ps[m].of + 1
        BY <1>2, <1>m, <3>1, <3>2 DEF Fits
      <3>. QED  BY <3>2, <3>3, <3>4, SMTT(30)
    <2>. QED  BY <2>2, <2>3
  <1>5. ASSUME NEW qs, NEW dut, Whole(t, qs, dut), AcceptGrammar(qs)
        PROVE  Agree(Append(ps, p), Append(cut, EndOf(ps, cut, p)), qs, dut)
    <2>1. Agree(ps, cut, qs, dut)
      BY <1>5 DEF Begins
    <2>2. cut[m + 1] \in 1 .. Len(t) + 1 /\ Len(t) \in Nat /\ m + 1 \in 1 .. m + 1
      <3>1. m + 1 \in 1 .. Len(ps) + 1
        BY <1>2
      <3>. QED  BY <1>1, <1>2, <3>1, CutPlaces
    <2>3. cut[m + 1] <= Len(t)
      <3>1. cut[m + 1] + Lead(m + 1) <= Len(t)
        BY <1>2, <2>2, LeadIs, PieceAhead
      <3>. QED  BY <2>2, <3>1 DEF Lead
    <2>4. /\ m < Len(qs) /\ qs[m + 1] \in Piece
          /\ Stands(t, qs[m + 1], Lead(m + 1), cut[m + 1])
      BY <1>1, <1>2, <1>5, <2>1, <2>3, AnotherPiece
    <2>5. /\ Derives(t, qs, dut) /\ qs \in Seq(Piece) /\ Len(qs) \in Nat
          /\ m + 1 \in 1 .. Len(qs) /\ dut[m + 1] = cut[m + 1]
      <3>1. Derives(t, qs, dut)
        BY <1>5 DEF Whole
      <3>2. qs \in Seq(Piece) /\ Len(qs) \in Nat
        BY <3>1, CutPlaces
      <3>. QED  BY <1>2, <2>1, <2>2, <2>4, <3>1, <3>2, SMTT(30) DEF Agree
    <2>6. ~Starts(From(t, cut[m + 1] + Width(qs[m + 1], Lead(m + 1))), Blank)
      BY <1>5, <2>5, PiecesTakeBlanks
    <2>7. ~Starts(From(t, cut[m + 1] + Width(p, Lead(m + 1))), Blank)
      BY <1>2 DEF EndOf
    <2>8. p.name = qs[m + 1].name /\ (Lead(m + 1) = 1 => Opens(p.kind) = Opens(qs[m + 1].kind))
      BY <1>2, <2>2, <2>4, <2>6, <2>7, LeadIs, OnePiece
    <2>9. p.kind = qs[m + 1].kind /\ p.of = qs[m + 1].of
      <3>1. m + 1 > 1 => Append(ps, p)[(m + 1) - 1] = qs[(m + 1) - 1]
        <4>0. (m + 1) - 1 = m
          OBVIOUS
        <4>1. SUFFICES ASSUME m + 1 > 1 PROVE Append(ps, p)[m] = qs[m]
          BY <4>0
        <4>2. m \in 1 .. m
          BY <4>1
        <4>. QED  BY <1>2, <1>m, <2>1, <4>2 DEF Agree
      <3>2. m + 1 > 1 => Opens(p.kind) = Opens(qs[m + 1].kind)
        BY <2>8 DEF Lead
      <3>3. Fits(qs, m + 1) /\ Fits(Append(ps, p), m + 1)
        BY <1>2, <1>5, <2>5 DEF AcceptGrammar
      <3>4. m + 1 <= Len(qs) /\ m + 1 <= Len(Append(ps, p)) /\ m + 1 \in Nat \ {0}
        BY <1>m, <2>5
      <3>5. PICK rs \in Seq(Piece) : rs = Append(ps, p)
        BY <1>m
      <3>6. /\ m + 1 \in Nat \ {0} /\ m + 1 <= Len(rs) /\ m + 1 <= Len(qs)
            /\ Fits(rs, m + 1) /\ Fits(qs, m + 1) /\ rs[m + 1] = p
            /\ m + 1 > 1 => rs[(m + 1) - 1] = qs[(m + 1) - 1]
            /\ rs[m + 1].name = qs[m + 1].name
            /\ m + 1 > 1 => Opens(rs[m + 1].kind) = Opens(qs[m + 1].kind)
        BY <1>m, <2>8, <3>1, <3>2, <3>3, <3>4, <3>5
      <3>7. rs[m + 1].kind = qs[m + 1].kind /\ rs[m + 1].of = qs[m + 1].of
        BY <2>5, <3>6, KindIsKnown
      <3>. QED  BY <3>6, <3>7
    <2>. QED  BY <1>1, <1>2, <1>5, <2>1, <2>4, <2>9, AgreeMore
  <1>. QED  BY <1>3, <1>4, <1>5, <1>m DEF Begins

(* The tokens of a piece are next.                                           *)
IsNext(t, lead, c, x, kind) ==
    /\ x = Ahead(t, c + lead)
    /\ c + lead <= Len(t) + 1
    /\ lead = 1 => t[c] = Opens(kind)
    /\ Len(x) >= 3 /\ x[1] \in Words /\ x[2] = Joins(kind) /\ x[3] \in Words

ThatPiece(t, lead, c, x, kind, of) ==
    [kind |-> kind, of |-> of,
     before |-> IF Starts(From(t, c + lead), Blank) THEN 1 ELSE 0,
     name |-> x[1], value |-> x[3],
     after |-> IF Starts(From(x, 4), Blank) THEN 1 ELSE 0]

(* They make a piece.                                                        *)
LEMMA PieceMade ==
  ASSUME NEW t \in Seq(Token), Tokenised(t), NEW lead \in 0 .. 1,
         NEW c \in 1 .. Len(t) + 1, NEW kind \in Kinds, NEW of \in Nat \ {0},
         NEW x, IsNext(t, lead, c, x, kind), NEW p, p = ThatPiece(t, lead, c, x, kind, of)
  PROVE  /\ p \in Piece /\ p.kind = kind /\ p.of = of /\ p.name = x[1] /\ p.value = x[3]
         /\ Stands(t, p, lead, c)
         /\ c + Width(p, lead) \in 1 .. Len(t) + 1
         /\ SkipWhitespaces(From(x, 4)) = From(t, c + Width(p, lead))
         /\ ~Starts(From(t, c + Width(p, lead)), Blank)
  <1>. DEFINE before == IF Starts(From(t, c + lead), Blank) THEN 1 ELSE 0
              after == IF Starts(From(x, 4), Blank) THEN 1 ELSE 0
  <1>1. before \in 0 .. 1 /\ after \in 0 .. 1
    OBVIOUS
  <1>2. /\ before = 1 <=> Starts(From(t, c + lead), Blank)
        /\ after = 1 <=> Starts(From(x, 4), Blank)
    OBVIOUS
  <1>0. p = [kind |-> kind, of |-> of, before |-> before, name |-> x[1],
             value |-> x[3], after |-> after]
    BY Zenon DEF ThatPiece
  <1>. HIDE DEF before, after
  <1>3. /\ p \in Piece /\ p.kind = kind /\ p.of = of /\ p.name = x[1] /\ p.value = x[3]
        /\ p.before = before /\ p.after = after
    BY <1>0, <1>1, SMTT(30) DEF Piece, IsNext
  <1>p. PICK q \in Piece : q = p
    BY <1>3
  <1>4. /\ x = Ahead(t, c + lead) /\ Len(x) >= 3 /\ c + lead <= Len(t) + 1
        /\ x[2] = Joins(q.kind) /\ q.name = x[1] /\ q.value = x[3]
        /\ lead = 1 => t[c] = Opens(q.kind)
    BY <1>3, <1>p DEF IsNext
  <1>5. q.before = 1 <=> Starts(From(t, c + lead), Blank)
    BY <1>2, <1>3, <1>p, Zenon
  <1>6. q.after = 1 <=> Starts(From(x, 4), Blank)
    BY <1>2, <1>3, <1>p, Zenon
  <1>7. /\ Stands(t, q, lead, c)
        /\ c + Width(q, lead) \in 1 .. Len(t) + 1
        /\ SkipWhitespaces(From(x, 4)) = From(t, c + Width(q, lead))
        /\ ~Starts(From(t, c + Width(q, lead)), Blank)
    BY <1>4, <1>5, <1>6, PieceRead, ZenonT(40)
  <1>. QED  BY <1>3, <1>7, <1>p

(* With the piece p, the beginning ps goes on behind the tokens x.           *)
OneMore(t, ps, x, kind, of, p, dut) ==
    /\ p.kind = kind /\ p.of = of /\ p.name = x[1] /\ p.value = x[3]
    /\ Fits(Append(ps, p), Len(ps) + 1) => Begins(t, Append(ps, p), dut)
    /\ SkipWhitespaces(From(x, 4)) = From(t, dut[Len(Append(ps, p)) + 1])
    /\ ~Starts(SkipWhitespaces(From(x, 4)), Blank)

LEMMA OnePieceMore ==
  ASSUME NEW t \in Seq(Token), Tokenised(t), NEW ps, NEW cut, Begins(t, ps, cut),
         NEW lead, lead = Lead(Len(ps) + 1), NEW c, c = cut[Len(ps) + 1],
         NEW kind \in Kinds, NEW of \in Nat \ {0}, NEW x, IsNext(t, lead, c, x, kind)
  PROVE  \E p \in Piece : \E dut : OneMore(t, ps, x, kind, of, p, dut)
  <1>1. Derives(t, ps, cut) /\ ps \in Seq(Piece) /\ Len(ps) \in Nat
        /\ cut \in Seq(Nat \ {0}) /\ Len(cut) = Len(ps) + 1
    BY LenProperties DEF Begins, Derives
  <1>2. c \in 1 .. Len(t) + 1 /\ lead \in 0 .. 1
    <2>1. Len(ps) + 1 \in 1 .. Len(ps) + 1
      BY <1>1
    <2>. QED  BY <1>1, <2>1, CutPlaces, LeadIs
  <1>p. PICK p : p = ThatPiece(t, lead, c, x, kind, of)
    OBVIOUS
  <1>3.     /\ p \in Piece /\ p.kind = kind /\ p.of = of /\ p.name = x[1] /\ p.value = x[3]
            /\ Stands(t, p, lead, c)
            /\ c + Width(p, lead) \in 1 .. Len(t) + 1
            /\ SkipWhitespaces(From(x, 4)) = From(t, c + Width(p, lead))
            /\ ~Starts(From(t, c + Width(p, lead)), Blank)
    BY <1>2, <1>p, PieceMade, SMTT(30)
  <1>4. c + Width(p, lead) = EndOf(ps, cut, p)
    BY DEF EndOf
  <1>. DEFINE e == EndOf(ps, cut, p)
  <1>5. Fits(Append(ps, p), Len(ps) + 1) => Begins(t, Append(ps, p), Append(cut, e))
    BY <1>3, <1>4, BeginsMore
  <1>6. Append(cut, e)[Len(Append(ps, p)) + 1] = e
    <2>1. e \in Nat \ {0} /\ Len(Append(ps, p)) + 1 = Len(cut) + 1
      BY <1>1, <1>3, <1>4, MorePieces
    <2>. HIDE DEF e
    <2>. QED  BY <1>1, <2>1, AppendProperties
  <1>7. OneMore(t, ps, x, kind, of, p, Append(cut, e))
    BY <1>3, <1>4, <1>5, <1>6 DEF OneMore
  <1>. QED  BY <1>3, <1>7

(* The pieces read so far say what the parser remembers.                     *)
ReadSoFar(ps, cut) ==
    /\ Begins(request.accept.tokens, ps, cut)
    /\ s = From(request.accept.tokens, cut[Len(ps) + 1])
    /\ ps # <<>> => ~Starts(s, Blank)
    /\ \A j \in 1 .. n : Says(ps, j, ranges[j])
    /\ pc = "range" => Count(ps) = n /\ (n > 0 => ~Starts(s, Semicolon))
    /\ pc \in {"parameters", "extensions"} => Count(ps) = n + 1 /\ Says(ps, n + 1, range)
    /\ pc = "parameters" => /\ ps[Len(ps)].kind \in {"type", "parameter"}
                            /\ Of(ps, n + 1, "weight") = {}
    /\ pc = "extensions" => ps[Len(ps)].kind \in {"weight", "extension"}

ReadOK ==
    /\ pc \in Reading => \E ps, cut : ReadSoFar(ps, cut)
    /\ pc = "select" => /\ request.accept.meaning # Malformed
                        /\ s = <<>> /\ ranges = request.accept.meaning
    /\ ReadsWhatWasWritten

AcceptOK == AcceptMeans(request.accept)

(* The invariant, spelled out.                                               *)
LEMMA ReadFacts ==
  ASSUME TypeOK, RangesOK, pc \in Reading, AcceptOK, NEW ps, NEW cut, ReadSoFar(ps, cut)
  PROVE  /\ request.accept.tokens \in Seq(Token) /\ Tokenised(request.accept.tokens)
         /\ Derives(request.accept.tokens, ps, cut)
         /\ ps \in Seq(Piece) /\ Len(ps) \in Nat /\ n \in Nat
         /\ cut[Len(ps) + 1] \in 1 .. Len(request.accept.tokens) + 1
         /\ \A i \in 1 .. Len(ps) : ps[i].of <= Count(ps) /\ ps[i].of \in Nat \ {0}
         /\ ps # <<>> => Count(ps) = ps[Len(ps)].of
         /\ pc = "range" => (ps = <<>> <=> n = 0)
         /\ pc \in {"parameters", "extensions"} => ps # <<>>
         /\ Len(ps) = 0 <=> ps = <<>>
  <1>1. request.accept.tokens \in Seq(Token) /\ Tokenised(request.accept.tokens) /\ n \in Nat
    BY HeaderTypes DEF AcceptOK, AcceptMeans, TypeOK
  <1>2. Derives(request.accept.tokens, ps, cut)
    BY DEF ReadSoFar, Begins
  <1>3. ps \in Seq(Piece) /\ Len(ps) \in Nat /\ Len(ps) + 1 \in 1 .. Len(ps) + 1
    BY <1>1, <1>2, CutPlaces
  <1>4. cut[Len(ps) + 1] \in 1 .. Len(request.accept.tokens) + 1
    BY <1>1, <1>2, <1>3, CutPlaces
  <1>5. \A i \in 1 .. Len(ps) : ps[i].of <= Count(ps) /\ ps[i].of \in Nat \ {0}
    <2>1. \A i \in 1 .. Len(ps) : ps[i] \in Piece
      BY <1>3, ElementOfSeq
    <2>. QED  BY <2>1 DEF ReadSoFar, Begins, Piece
  <1>6. /\ ps # <<>> => Count(ps) = ps[Len(ps)].of /\ Count(ps) \in Nat \ {0}
        /\ ps = <<>> => Count(ps) = 0
        /\ Len(ps) = 0 <=> ps = <<>>
    BY <1>3, CountIs
  <1>7. pc = "range" => (ps = <<>> <=> n = 0)
    BY <1>1, <1>6 DEF ReadSoFar
  <1>8. pc \in {"parameters", "extensions"} => ps # <<>>
    BY <1>1, <1>6 DEF ReadSoFar
  <1>. QED  BY <1>1, <1>2, <1>3, <1>4, <1>5, <1>6, <1>7, <1>8

(* What the parser looks at next.                                            *)
LEMMA AheadIs ==
  ASSUME TypeOK, RangesOK, pc \in Reading, AcceptOK, NEW ps, NEW cut, ReadSoFar(ps, cut),
         NEW t, t = request.accept.tokens, NEW c, c = cut[Len(ps) + 1],
         NEW lead, lead = Lead(Len(ps) + 1)
  PROVE  /\ pc = "range" => (lead = 0 <=> n = 0) /\ (lead = 1 <=> n > 0)
         /\ (pc = "range" /\ (n > 0 => Starts(s, Comma))) =>
               /\ NextElement = Ahead(t, c + lead) /\ c + lead <= Len(t) + 1
               /\ lead = 1 => t[c] = Comma
         /\ pc \in {"parameters", "extensions"} => lead = 1
         /\ (pc \in {"parameters", "extensions"} /\ Starts(s, Semicolon)) =>
               /\ Parameter = Ahead(t, c + lead) /\ c + lead <= Len(t) + 1
               /\ t[c] = Semicolon
         /\ \A x : Starts(s, x) <=> c <= Len(t) /\ t[c] = x
         /\ s = <<>> <=> c = Len(t) + 1
  <1>1. /\ t \in Seq(Token) /\ c \in 1 .. Len(t) + 1 /\ n \in Nat /\ s = From(t, c)
        /\ pc = "range" => (ps = <<>> <=> n = 0)
        /\ pc \in {"parameters", "extensions"} => ps # <<>>
        /\ Len(ps) = 0 <=> ps = <<>>
        /\ Len(ps) \in Nat
    BY ReadFacts DEF ReadSoFar
  <1>2. (lead = 0 <=> ps = <<>>) /\ (lead = 1 <=> ps # <<>>)
    BY <1>1 DEF Lead
  <1>3. /\ From(t, c) = <<>> <=> c = Len(t) + 1
        /\ c <= Len(t) => Tail(From(t, c)) = From(t, c + 1)
        /\ \A x : Starts(From(t, c), x) <=> c <= Len(t) /\ t[c] = x
    <2>1. From(t, c) = <<>> <=> c = Len(t) + 1
      BY <1>1, RestFirst
    <2>2. c <= Len(t) => Tail(From(t, c)) = From(t, c + 1)
      BY <1>1, RestFirst
    <2>3. \A x : Starts(From(t, c), x) <=> c <= Len(t) /\ t[c] = x
      BY <1>1, RestFirst
    <2>. QED  BY <2>1, <2>2, <2>3
  <1>4. ASSUME pc = "range", n > 0 => Starts(s, Comma)
        PROVE  /\ NextElement = Ahead(t, c + lead) /\ c + lead <= Len(t) + 1
               /\ lead = 1 => t[c] = Comma
    <2>1. CASE n = 0
      <3>1. lead = 0 /\ c + lead = c /\ c <= Len(t) + 1
        BY <1>1, <1>2, <1>4, <2>1
      <3>. QED  BY <1>1, <2>1, <3>1 DEF NextElement, Ahead
    <2>2. CASE n # 0
      <3>1. lead = 1 /\ Starts(s, Comma)
        BY <1>1, <1>2, <1>4, <2>2
      <3>2. c <= Len(t) /\ t[c] = Comma /\ Tail(s) = From(t, c + lead)
        BY <1>1, <1>3, <3>1
      <3>3. c + lead <= Len(t) + 1
        BY <1>1, <3>1, <3>2
      <3>. QED  BY <2>2, <3>2, <3>3 DEF NextElement, Ahead
    <2>. QED  BY <2>1, <2>2
  <1>5. ASSUME pc \in {"parameters", "extensions"}, Starts(s, Semicolon)
        PROVE  Parameter = Ahead(t, c + lead) /\ c + lead <= Len(t) + 1 /\ t[c] = Semicolon
    <2>1. lead = 1
      BY <1>1, <1>2, <1>5
    <2>2. c <= Len(t) /\ t[c] = Semicolon /\ Tail(s) = From(t, c + lead)
      BY <1>1, <1>3, <1>5, <2>1
    <2>3. c + lead <= Len(t) + 1
      BY <1>1, <2>1, <2>2
    <2>. QED  BY <2>2, <2>3 DEF Parameter, Ahead
  <1>6. pc = "range" => (lead = 0 <=> n = 0) /\ (lead = 1 <=> n > 0)
    BY <1>1, <1>2
  <1>7. pc \in {"parameters", "extensions"} => lead = 1
    BY <1>1, <1>2
  <1>8. (\A x : Starts(s, x) <=> c <= Len(t) /\ t[c] = x) /\ (s = <<>> <=> c = Len(t) + 1)
    BY <1>1, <1>3
  <1>. QED  BY <1>4, <1>5, <1>6, <1>7, <1>8

LEMMA KindFacts ==
  \A kind \in Kinds : /\ Opens(kind) = IF kind = "type" THEN Comma ELSE Semicolon
                      /\ Joins(kind) = IF kind = "type" THEN "/" ELSE "="
  BY DEF Opens, Joins

(* What consumeType and consumeParameter look for is what joins two words.   *)
LEMMA TypeFacts ==
  ASSUME NEW x, HasType(x)
  PROVE  /\ Len(x) >= 3 /\ x[1] \in Words /\ x[3] \in Words
         /\ \A kind \in Kinds : kind = "type" => x[2] = Joins(kind)
         /\ x[1] = "*" => x[3] = "*"
  <1>1. \A kind \in Kinds : kind = "type" => Joins(kind) = "/"
    BY DEF Joins
  <1>. QED  BY <1>1, Zenon DEF HasType

LEMMA ParameterFacts ==
  ASSUME NEW x, HasParameter(x)
  PROVE  /\ Len(x) >= 3 /\ x[1] \in Words /\ x[3] \in Words
         /\ \A kind \in Kinds : kind # "type" => x[2] = Joins(kind)
  <1>1. \A kind \in Kinds : kind # "type" => Joins(kind) = "="
    BY DEF Joins
  <1>. QED  BY <1>1, Zenon DEF HasParameter

(* A media type is read.                                                     *)
LEMMA TypeIsRead ==
  ASSUME TypeOK, RangesOK, AcceptOK, request' = request, NEW ps, NEW cut,
         ReadSoFar(ps, cut), ConsumeType
  PROVE  \E qs, dut : ReadSoFar(qs, dut)'
  <1>0. pc = "range" /\ pc \in Reading
    BY DEF ConsumeType, Reading
  <1>t. PICK t : t = request.accept.tokens
    OBVIOUS
  <1>c. PICK c : c = cut[Len(ps) + 1]
    OBVIOUS
  <1>l. PICK lead : lead = Lead(Len(ps) + 1)
    OBVIOUS
  <1>x. PICK x : x = NextElement
    OBVIOUS
  <1>k. PICK kind \in Kinds : kind = "type"
    BY DEF Kinds
  <1>1. /\ t \in Seq(Token) /\ Tokenised(t) /\ ps \in Seq(Piece) /\ Len(ps) \in Nat /\ n \in Nat
        /\ \A i \in 1 .. Len(ps) : ps[i].of <= Count(ps) /\ ps[i].of \in Nat \ {0}
        /\ ps # <<>> => Count(ps) = ps[Len(ps)].of
        /\ (ps = <<>> <=> n = 0) /\ (Len(ps) = 0 <=> ps = <<>>)
    BY <1>0, <1>t, ReadFacts
  <1>2. n > 0 => Starts(s, Comma)
    BY DEF ConsumeType
  <1>3. /\ x = Ahead(t, c + lead) /\ c + lead <= Len(t) + 1
        /\ lead = 1 => t[c] = Comma
    BY <1>0, <1>2, <1>t, <1>c, <1>l, <1>x, AheadIs
  <1>4. HasType(x)
    BY <1>x DEF ConsumeType
  <1>5. IsNext(t, lead, c, x, kind)
    <2>1. Opens(kind) = Comma
      BY <1>k, KindFacts
    <2>. QED  BY <1>3, <1>4, <1>k, <2>1, TypeFacts DEF IsNext
  <1>6. Begins(t, ps, cut) /\ Count(ps) = n /\ \A j \in 1 .. n : Says(ps, j, ranges[j])
    BY <1>0, <1>t DEF ReadSoFar
  <1>w. PICK p \in Piece : \E dut : OneMore(t, ps, x, kind, n + 1, p, dut)
    <2>1. n + 1 \in Nat \ {0}
      BY <1>1
    <2>. QED  BY <1>1, <1>5, <1>6, <1>c, <1>l, <2>1, OnePieceMore
  <1>o. PICK dut : OneMore(t, ps, x, kind, n + 1, p, dut)
    BY <1>w
  <1>7. /\ p.kind = kind /\ p.of = n + 1 /\ p.name = x[1] /\ p.value = x[3]
        /\ Fits(Append(ps, p), Len(ps) + 1) => Begins(t, Append(ps, p), dut)
        /\ SkipWhitespaces(From(x, 4)) = From(t, dut[Len(Append(ps, p)) + 1])
        /\ ~Starts(SkipWhitespaces(From(x, 4)), Blank)
    BY <1>o DEF OneMore
  <1>8. /\ Append(ps, p) # <<>> /\ Append(ps, p)[Len(ps) + 1] = p
        /\ Count(Append(ps, p)) = n + 1
        /\ \A i \in 1 .. Len(ps) : Append(ps, p)[i] = ps[i]
    BY <1>1, <1>7, MorePieces
  <1>9. Fits(Append(ps, p), Len(ps) + 1)
    <2>1. ProperType(p)
      BY <1>4, <1>7, TypeFacts DEF ProperType
    <2>2. Len(ps) + 1 = 1 => p.of = 1
      BY <1>1, <1>7
    <2>3. Len(ps) + 1 # 1 => p.of = Append(ps, p)[Len(ps) + 1 - 1].of + 1
      <3>1. SUFFICES ASSUME Len(ps) # 0 PROVE p.of = Append(ps, p)[Len(ps)].of + 1
        BY <1>1
      <3>2. Len(ps) \in 1 .. Len(ps)
        BY <1>1, <3>1
      <3>. QED  BY <1>1, <1>6, <1>7, <1>8, <3>1, <3>2
    <2>. QED  BY <1>7, <1>8, <1>k, <2>1, <2>2, <2>3 DEF Fits
  <1>10. \A j \in 1 .. n : Says(Append(ps, p), j, ranges[j])
    <2>1. \A j \in 1 .. n : p.of # j
      BY <1>1, <1>7
    <2>. QED  BY <1>1, <1>6, <2>1, OthersSay
  <1>11. /\ s' = SkipWhitespaces(From(x, 4)) /\ pc' = "parameters" /\ n' = n
         /\ ranges' = ranges
         /\ range' = [type |-> p.name, subtype |-> p.value, parameters |-> {}, weight |-> 1000]
    BY <1>7, <1>x DEF ConsumeType
  <1>12. Says(Append(ps, p), n + 1, range')
    <2>1. \A i \in 1 .. Len(ps) : ps[i].of # p.of
      BY <1>1, <1>6, <1>7
    <2>. QED  BY <1>1, <1>7, <1>11, <1>k, <2>1, TypeSays, SMTT(30)
  <1>13. Of(Append(ps, p), n + 1, "weight") = {}
    <2>1. \A i : i \notin Of(ps, n + 1, "weight")
      <3>1. \A i \in 1 .. Len(ps) : ps[i].of # n + 1
        BY <1>1, <1>6
      <3>. QED  BY <3>1 DEF Of
    <2>2. p.kind # "weight"
      BY <1>7, <1>k
    <2>3. PICK w : w = "weight"
      OBVIOUS
    <2>4. \A i : i \notin Of(Append(ps, p), n + 1, w)
      BY <1>1, <2>1, <2>2, <2>3, OfMember
    <2>5. Of(Append(ps, p), n + 1, w) = {}
      BY <2>4
    <2>. QED  BY <2>3, <2>5
  <1>14. Append(ps, p)[Len(Append(ps, p))] = p
    BY <1>1, <1>8, MorePieces
  <1>. PICK qs : qs = Append(ps, p)
    OBVIOUS
  <1>15. ReadSoFar(qs, dut)'
    BY <1>7, <1>8, <1>9, <1>10, <1>11, <1>12, <1>13, <1>14, <1>t, <1>k DEF ReadSoFar
  <1>. QED  BY <1>15

(* A parameter, a weight or an extension is read.                            *)
LEMMA PartAhead ==
  ASSUME TypeOK, RangesOK, AcceptOK, NEW ps, NEW cut, ReadSoFar(ps, cut),
         pc \in {"parameters", "extensions"}, Starts(s, Semicolon), HasParameter(Parameter),
         NEW kind \in Kinds, kind # "type"
  PROVE  /\ \E p \in Piece : \E dut :
               OneMore(request.accept.tokens, ps, Parameter, kind, n + 1, p, dut)
         /\ ps \in Seq(Piece) /\ ps # <<>> /\ n \in Nat
         /\ ps[Len(ps)].of = n + 1 /\ Says(ps, n + 1, range)
  <1>0. pc \in Reading
    BY DEF Reading
  <1>t. PICK t : t = request.accept.tokens
    OBVIOUS
  <1>c. PICK c : c = cut[Len(ps) + 1]
    OBVIOUS
  <1>l. PICK lead : lead = Lead(Len(ps) + 1)
    OBVIOUS
  <1>x. PICK x : x = Parameter
    OBVIOUS
  <1>1. /\ t \in Seq(Token) /\ Tokenised(t) /\ ps \in Seq(Piece) /\ Len(ps) \in Nat /\ n \in Nat
        /\ ps # <<>> => Count(ps) = ps[Len(ps)].of
        /\ ps # <<>>
    BY <1>0, <1>t, ReadFacts
  <1>2. x = Ahead(t, c + lead) /\ c + lead <= Len(t) + 1 /\ t[c] = Semicolon
    BY <1>0, <1>t, <1>c, <1>l, <1>x, AheadIs
  <1>3. IsNext(t, lead, c, x, kind)
    <2>1. Opens(kind) = Semicolon
      BY KindFacts
    <2>2. HasParameter(x)
      BY <1>x
    <2>. QED  BY <1>2, <2>1, <2>2, ParameterFacts DEF IsNext
  <1>4. Begins(t, ps, cut) /\ Count(ps) = n + 1 /\ Says(ps, n + 1, range)
    BY <1>t DEF ReadSoFar
  <1>5. \E p \in Piece : \E dut : OneMore(t, ps, x, kind, n + 1, p, dut)
    <2>1. n + 1 \in Nat \ {0}
      BY <1>1
    <2>. QED  BY <1>1, <1>3, <1>4, <1>c, <1>l, <2>1, OnePieceMore
  <1>. QED  BY <1>1, <1>4, <1>5, <1>t, <1>x

(* Where a parameter, a weight and an extension may stand.                   *)
LEMMA PartFits ==
  ASSUME NEW ps \in Seq(Piece), ps # <<>>, NEW p \in Piece, p.of = ps[Len(ps)].of,
         \/ /\ p.kind = "parameter" /\ p.name # "q"
            /\ ps[Len(ps)].kind \in {"type", "parameter"}
         \/ /\ p.kind = "weight" /\ p.name = "q" /\ p.value \in DOMAIN Weight
            /\ ps[Len(ps)].kind \in {"type", "parameter"}
         \/ p.kind = "extension" /\ ps[Len(ps)].kind \in {"weight", "extension"}
  PROVE  Fits(Append(ps, p), Len(ps) + 1)
  <1>1. Len(ps) \in Nat /\ Len(ps) \in 1 .. Len(ps)
    BY CountIs
  <1>2. Append(ps, p)[Len(ps) + 1] = p /\ Append(ps, p)[Len(ps) + 1 - 1] = ps[Len(ps)]
    <2>1. Len(ps) + 1 - 1 = Len(ps)
      BY <1>1
    <2>. QED  BY <1>1, <2>1, MorePieces
  <1>3. Len(ps) + 1 > 1
    BY <1>1
  <1>. QED  BY <1>2, <1>3 DEF Fits

(* One more piece of the range that is being read.                           *)
LEMMA PartIsRead ==
  ASSUME TypeOK, RangesOK, AcceptOK, request' = request, NEW ps, NEW cut, ReadSoFar(ps, cut),
         pc \in {"parameters", "extensions"}, pc' \in {"parameters", "extensions"},
         NEW p \in Piece, NEW dut, NEW kind, NEW x,
         OneMore(request.accept.tokens, ps, x, kind, n + 1, p, dut),
         Fits(Append(ps, p), Len(ps) + 1),
         s' = SkipWhitespaces(From(x, 4)), n' = n, ranges' = ranges,
         Says(Append(ps, p), n + 1, range'),
         pc' = "parameters" => /\ kind \in {"type", "parameter"}
                               /\ Of(Append(ps, p), n + 1, "weight") = {},
         pc' = "extensions" => kind \in {"weight", "extension"}
  PROVE  \E qs, but : ReadSoFar(qs, but)'
  <1>0. pc \in Reading
    BY DEF Reading
  <1>t. PICK t : t = request.accept.tokens
    OBVIOUS
  <1>1. ps \in Seq(Piece) /\ Len(ps) \in Nat /\ n \in Nat
    BY <1>0, ReadFacts
  <1>2. /\ p.kind = kind /\ p.of = n + 1
        /\ Begins(t, Append(ps, p), dut)
        /\ SkipWhitespaces(From(x, 4)) = From(t, dut[Len(Append(ps, p)) + 1])
        /\ ~Starts(SkipWhitespaces(From(x, 4)), Blank)
    BY <1>t DEF OneMore
  <1>3. /\ Append(ps, p) # <<>> /\ Append(ps, p)[Len(Append(ps, p))] = p
        /\ Count(Append(ps, p)) = n + 1
    BY <1>1, <1>2, MorePieces
  <1>4. \A j \in 1 .. n : Says(Append(ps, p), j, ranges[j])
    <2>1. \A j \in 1 .. n : p.of # j
      BY <1>1, <1>2
    <2>2. \A j \in 1 .. n : Says(ps, j, ranges[j])
      BY DEF ReadSoFar
    <2>. QED  BY <1>1, <2>1, <2>2, OthersSay
  <1>. PICK qs : qs = Append(ps, p)
    OBVIOUS
  <1>5. ReadSoFar(qs, dut)'
    BY <1>2, <1>3, <1>4, <1>t DEF ReadSoFar
  <1>. QED  BY <1>5

LEMMA ParameterIsRead ==
  ASSUME TypeOK, RangesOK, AcceptOK, request' = request, NEW ps, NEW cut,
         ReadSoFar(ps, cut), ConsumeParameter
  PROVE  \E qs, dut : ReadSoFar(qs, dut)'
  <1>1. /\ pc = "parameters" /\ pc' = "parameters" /\ Starts(s, Semicolon)
        /\ HasParameter(Parameter) /\ Parameter[1] # "q"
        /\ s' = SkipWhitespaces(From(Parameter, 4)) /\ n' = n /\ ranges' = ranges
        /\ range' = [range EXCEPT !.parameters = Put(@, Parameter[1], Parameter[3])]
    BY DEF ConsumeParameter
  <1>k. PICK kind \in Kinds : kind = "parameter"
    BY DEF Kinds
  <1>2. /\ \E p \in Piece : \E dut :
              OneMore(request.accept.tokens, ps, Parameter, kind, n + 1, p, dut)
        /\ ps \in Seq(Piece) /\ ps # <<>> /\ n \in Nat
        /\ ps[Len(ps)].of = n + 1 /\ Says(ps, n + 1, range)
    BY <1>1, <1>k, PartAhead
  <1>w. PICK p \in Piece : \E dut :
              OneMore(request.accept.tokens, ps, Parameter, kind, n + 1, p, dut)
    BY <1>2
  <1>3. PICK dut :
              OneMore(request.accept.tokens, ps, Parameter, kind, n + 1, p, dut)
    BY <1>w
  <1>4. /\ p.kind = "parameter" /\ p.of = n + 1 /\ p.name = Parameter[1]
        /\ p.value = Parameter[3]
    BY <1>3, <1>k DEF OneMore
  <1>5. /\ ps[Len(ps)].kind \in {"type", "parameter"}
        /\ Of(ps, n + 1, "weight") = {}
    BY <1>1 DEF ReadSoFar
  <1>6. Fits(Append(ps, p), Len(ps) + 1)
    BY <1>1, <1>2, <1>4, <1>5, PartFits
  <1>7. Says(Append(ps, p), n + 1, range')
    <2>1. range \in MediaRange
      BY <1>1 DEF RangesOK, Proper
    <2>2. Says(Append(ps, p), p.of, [range EXCEPT !.parameters = Put(@, p.name, p.value)])
      BY <1>2, <1>4, <2>1, ParameterSays
    <2>. QED  BY <1>1, <1>4, <2>2
  <1>8. Of(Append(ps, p), n + 1, "weight") = {}
    <2>1. PICK w : w = "weight" /\ p.kind # w
      BY <1>4
    <2>2. Of(Append(ps, p), n + 1, w) = Of(ps, n + 1, w)
      <3>1. PiecesKept(ps, Append(ps, p), n + 1, w)
        BY <1>2, <2>1, OfKept, Zenon
      <3>. QED  BY <3>1 DEF PiecesKept
    <2>. QED  BY <1>5, <2>1, <2>2
  <1>9. \E qs, dvt : ReadSoFar(qs, dvt)'
    BY <1>1, <1>3, <1>6, <1>7, <1>8, <1>k, PartIsRead
  <1>. QED  BY <1>9

LEMMA WeightIsRead ==
  ASSUME TypeOK, RangesOK, AcceptOK, request' = request, NEW ps, NEW cut,
         ReadSoFar(ps, cut), ConsumeWeight
  PROVE  \E qs, dut : ReadSoFar(qs, dut)'
  <1>1. /\ pc = "parameters" /\ pc' = "extensions" /\ Starts(s, Semicolon)
        /\ HasParameter(Parameter) /\ Parameter[1] = "q" /\ Parameter[3] \in DOMAIN Weight
        /\ s' = SkipWhitespaces(From(Parameter, 4)) /\ n' = n /\ ranges' = ranges
        /\ range' = [range EXCEPT !.weight = Weight[Parameter[3]]]
    BY DEF ConsumeWeight
  <1>k. PICK kind \in Kinds : kind = "weight"
    BY DEF Kinds
  <1>2. /\ \E p \in Piece : \E dut :
              OneMore(request.accept.tokens, ps, Parameter, kind, n + 1, p, dut)
        /\ ps \in Seq(Piece) /\ ps # <<>> /\ n \in Nat
        /\ ps[Len(ps)].of = n + 1 /\ Says(ps, n + 1, range)
    BY <1>1, <1>k, PartAhead
  <1>w. PICK p \in Piece : \E dut :
              OneMore(request.accept.tokens, ps, Parameter, kind, n + 1, p, dut)
    BY <1>2
  <1>3. PICK dut :
              OneMore(request.accept.tokens, ps, Parameter, kind, n + 1, p, dut)
    BY <1>w
  <1>4. /\ p.kind = "weight" /\ p.of = n + 1 /\ p.name = Parameter[1]
        /\ p.value = Parameter[3]
    BY <1>3, <1>k DEF OneMore
  <1>5. /\ ps[Len(ps)].kind \in {"type", "parameter"}
        /\ Of(ps, n + 1, "weight") = {}
    BY <1>1 DEF ReadSoFar
  <1>6. Fits(Append(ps, p), Len(ps) + 1)
    BY <1>1, <1>2, <1>4, <1>5, PartFits
  <1>7. Says(Append(ps, p), n + 1, range')
    <2>1. range \in MediaRange
      BY <1>1 DEF RangesOK, Proper
    <2>2. Says(Append(ps, p), p.of, [range EXCEPT !.weight = Weight[p.value]])
      BY <1>2, <1>4, <1>5, <2>1, WeightSays
    <2>. QED  BY <1>1, <1>4, <2>2
  <1>. QED  BY <1>1, <1>3, <1>6, <1>7, <1>k, PartIsRead

LEMMA ExtensionIsRead ==
  ASSUME TypeOK, RangesOK, AcceptOK, request' = request, NEW ps, NEW cut,
         ReadSoFar(ps, cut), ConsumeExtension
  PROVE  \E qs, dut : ReadSoFar(qs, dut)'
  <1>1. /\ pc = "extensions" /\ pc' = "extensions" /\ Starts(s, Semicolon)
        /\ HasParameter(Parameter)
        /\ s' = SkipWhitespaces(From(Parameter, 4)) /\ n' = n /\ ranges' = ranges
        /\ range' = range
    BY DEF ConsumeExtension, choice
  <1>k. PICK kind \in Kinds : kind = "extension"
    BY DEF Kinds
  <1>2. /\ \E p \in Piece : \E dut :
              OneMore(request.accept.tokens, ps, Parameter, kind, n + 1, p, dut)
        /\ ps \in Seq(Piece) /\ ps # <<>> /\ n \in Nat
        /\ ps[Len(ps)].of = n + 1 /\ Says(ps, n + 1, range)
    BY <1>1, <1>k, PartAhead
  <1>w. PICK p \in Piece : \E dut :
              OneMore(request.accept.tokens, ps, Parameter, kind, n + 1, p, dut)
    BY <1>2
  <1>3. PICK dut :
              OneMore(request.accept.tokens, ps, Parameter, kind, n + 1, p, dut)
    BY <1>w
  <1>4. p.kind = "extension" /\ p.of = n + 1
    BY <1>3, <1>k DEF OneMore
  <1>5. ps[Len(ps)].kind \in {"weight", "extension"}
    BY <1>1 DEF ReadSoFar
  <1>6. Fits(Append(ps, p), Len(ps) + 1)
    BY <1>2, <1>4, <1>5, PartFits
  <1>7. Says(Append(ps, p), n + 1, range')
    <2>1. Says(Append(ps, p), p.of, range)
      BY <1>2, <1>4, ExtensionSays
    <2>. QED  BY <1>1, <1>4, <2>1
  <1>. QED  BY <1>1, <1>3, <1>6, <1>7, <1>k, PartIsRead

(* A range has been read.                                                    *)
LEMMA RangeIsRead ==
  ASSUME TypeOK, RangesOK, AcceptOK, request' = request, NEW ps, NEW cut,
         ReadSoFar(ps, cut), Weigh
  PROVE  ReadSoFar(ps, cut)'
  <1>1. /\ pc \in {"parameters", "extensions"} /\ pc \in Reading /\ pc' = "range"
        /\ n' = n + 1 /\ ranges' = Append(ranges, range) /\ s' = SkipWhitespaces(s)
        /\ ~Starts(s, Semicolon)
    BY DEF Weigh, Reading
  <1>2. ps # <<>> /\ n \in Nat
    BY <1>1, ReadFacts
  <1>3. s' = s /\ ~Starts(s, Blank)
    BY <1>1, <1>2, SkipBlank DEF ReadSoFar
  <1>4. /\ n = Len(ranges) /\ ranges \in Seq(MediaRange) /\ range \in MediaRange
    BY <1>1 DEF RangesOK, Proper, TypeOK
  <1>5. ASSUME NEW j \in 1 .. n + 1 PROVE Says(ps, j, Append(ranges, range)[j])
    <2>1. CASE j = n + 1
      <3>1. Append(ranges, range)[j] = range
        BY <1>4, <2>1, AppendProperties
      <3>. QED  BY <1>1, <2>1, <3>1 DEF ReadSoFar
    <2>2. CASE j # n + 1
      <3>1. j \in 1 .. n
        BY <1>2, <2>2
      <3>2. Append(ranges, range)[j] = ranges[j]
        BY <1>4, <3>1, AppendProperties
      <3>. QED  BY <3>1, <3>2 DEF ReadSoFar
    <2>. QED  BY <2>1, <2>2
  <1>6. Count(ps) = n + 1
    BY <1>1 DEF ReadSoFar
  <1>7. /\ Begins(request.accept.tokens, ps, cut)
        /\ s = From(request.accept.tokens, cut[Len(ps) + 1])
    BY DEF ReadSoFar
  <1>. QED  BY <1>1, <1>3, <1>5, <1>6, <1>7 DEF ReadSoFar

(* A call begins with no piece.                                              *)
LEMMA NothingIsRead ==
  ASSUME TypeOK, request' = request, Calls
  PROVE  \E ps, cut : ReadSoFar(ps, cut)'
  <1>1. /\ pc' = "range" /\ s' = request.accept.tokens /\ n' = 0 /\ ranges' = <<>>
    BY DEF Calls, GetMapper, Logout, Negotiate
  <1>t. PICK t \in Seq(Token) : t = request.accept.tokens
    BY HeaderTypes
  <1>p. PICK ps : ps = <<>> /\ ps \in Seq(Piece)
    BY EmptySeq
  <1>c. PICK cut : cut = <<1>> /\ cut \in Seq(Nat \ {0})
    <2>1. 1 \in Nat \ {0}
      OBVIOUS
    <2>2. <<1>> \in Seq(Nat \ {0})
      BY <2>1
    <2>. QED  BY <2>2
  <1>2. Len(ps) = 0 /\ Len(cut) = 1 /\ cut[1] = 1 /\ ps = <<>> /\ cut[Len(ps) + 1] = 1
    BY <1>p, <1>c
  <1>3. Derives(t, ps, cut)
    BY <1>2, <1>p, <1>c DEF Derives
  <1>4. AcceptGrammar(ps)
    BY <1>2 DEF AcceptGrammar
  <1>5. ASSUME NEW qs, NEW dut, Whole(t, qs, dut) PROVE Agree(ps, cut, qs, dut)
    <2>1. dut[1] = 1 /\ Len(qs) \in Nat
      BY <1>5, CutPlaces DEF Whole, Derives
    <2>. QED  BY <1>2, <2>1 DEF Agree
  <1>6. Begins(t, ps, cut)
    BY <1>2, <1>3, <1>4, <1>5 DEF Begins
  <1>7. t = From(t, 1)
    BY LenProperties, SubSeqFull DEF From
  <1>8. Count(ps) = 0
    BY <1>2 DEF Count
  <1>9. ReadSoFar(ps, cut)'
    BY <1>1, <1>2, <1>6, <1>7, <1>8, <1>t DEF ReadSoFar
  <1>. QED  BY <1>9

(* At the end of the header the pieces are all of it.                        *)
LEMMA AllIsRead ==
  ASSUME TypeOK, RangesOK, AcceptOK, NEW ps, NEW cut, ReadSoFar(ps, cut), EndOfHeader
  PROVE  request.accept.meaning # Malformed /\ ranges = request.accept.meaning
  <1>1. pc = "range" /\ pc \in Reading /\ s = <<>>
    BY DEF EndOfHeader, Reading
  <1>t. PICK t : t = request.accept.tokens
    OBVIOUS
  <1>2. t \in Seq(Token) /\ Derives(t, ps, cut) /\ ps \in Seq(Piece) /\ Len(ps) \in Nat
    BY <1>1, <1>t, ReadFacts
  <1>3. cut[Len(ps) + 1] = Len(t) + 1
    BY <1>1, <1>t, AheadIs
  <1>4. n = Len(ranges) /\ ranges \in Seq(MediaRange)
    BY DEF RangesOK, TypeOK
  <1>5. /\ AcceptGrammar(ps) /\ Count(ps) = n /\ \A j \in 1 .. n : Says(ps, j, ranges[j])
        /\ \A qs, dut : Whole(t, qs, dut) /\ AcceptGrammar(qs) => Agree(ps, cut, qs, dut)
    BY <1>1, <1>t DEF ReadSoFar, Begins
  <1>6. Written(t, ranges)
    <2>1. WrittenAs(t, ranges, ps, cut)
      BY <1>2, <1>3, <1>4, <1>5 DEF WrittenAs, Whole
    <2>. QED  BY <2>1 DEF Written
  <1>7. request.accept.meaning # Malformed /\ Written(t, request.accept.meaning)
    BY <1>4, <1>6, <1>t DEF AcceptOK, AcceptMeans
  <1>8. PICK rs \in Seq(MediaRange) : rs = request.accept.meaning
    BY <1>7 DEF TypeOK, Request, Header
  <1>9. PICK qs, dut : WrittenAs(t, rs, qs, dut)
    BY <1>7, <1>8 DEF Written
  <1>10. /\ Whole(t, qs, dut) /\ AcceptGrammar(qs) /\ Len(rs) = Count(qs)
         /\ \A j \in 1 .. Len(rs) : Says(qs, j, rs[j])
    BY <1>9 DEF WrittenAs
  <1>11. Agree(ps, cut, qs, dut)
    BY <1>5, <1>10
  <1>12. ps = qs
    <2>1. Derives(t, qs, dut)
      BY <1>10 DEF Whole
    <2>2. qs \in Seq(Piece) /\ Len(qs) \in Nat /\ Len(t) \in Nat
      BY <1>2, <2>1, CutPlaces
    <2>3. ~(cut[Len(ps) + 1] <= Len(t))
      BY <1>3, <2>2
    <2>4. ~(Len(ps) < Len(qs))
      BY <1>2, <1>10, <1>11, <2>3, AnotherPiece
    <2>5. Len(ps) = Len(qs)
      BY <1>2, <1>11, <2>2, <2>4 DEF Agree
    <2>. QED  BY <1>2, <1>11, <2>2, <2>5, SeqEqual DEF Agree
  <1>13. Len(rs) = Len(ranges)
    BY <1>4, <1>5, <1>10, <1>12
  <1>14. ASSUME NEW j \in 1 .. Len(ranges) PROVE ranges[j] = rs[j]
    <2>1. ranges[j] \in MediaRange /\ rs[j] \in MediaRange
      BY <1>4, <1>13, ElementOfSeq
    <2>2. Says(ps, j, ranges[j]) /\ Says(ps, j, rs[j])
      BY <1>4, <1>5, <1>10, <1>12, <1>13
    <2>. QED  BY <2>1, <2>2, OneMeaning
  <1>15. ranges = rs
    BY <1>4, <1>13, <1>14, SeqEqual
  <1>. QED  BY <1>7, <1>8, <1>15

(* The piece that comes next in a header that keeps to the grammar.          *)
LEMMA NextPiece ==
  ASSUME TypeOK, RangesOK, AcceptOK, pc \in Reading, NEW ps, NEW cut, ReadSoFar(ps, cut),
         s # <<>>, request.accept.meaning # Malformed, NEW t, t = request.accept.tokens,
         NEW c, c = cut[Len(ps) + 1], NEW lead, lead = Lead(Len(ps) + 1)
  PROVE  \E qs \in Seq(Piece), q \in Piece :
            /\ Fits(qs, Len(ps) + 1) /\ q = qs[Len(ps) + 1]
            /\ Len(ps) > 0 => qs[Len(ps)] = ps[Len(ps)]
            /\ Stands(t, q, lead, c)
  <1>1. /\ t \in Seq(Token) /\ Derives(t, ps, cut) /\ Len(ps) \in Nat
        /\ c \in 1 .. Len(t) + 1
    BY ReadFacts
  <1>2. c <= Len(t)
    <2>1. ~(c = Len(t) + 1) /\ Len(t) \in Nat
      BY <1>1, AheadIs, LenProperties
    <2>. QED  BY <1>1, <2>1, SMTT(30)
  <1>3. PICK qs, dut : WrittenAs(t, request.accept.meaning, qs, dut)
    BY DEF AcceptOK, AcceptMeans, Written
  <1>4. Whole(t, qs, dut) /\ AcceptGrammar(qs)
    BY <1>3 DEF WrittenAs
  <1>5. Agree(ps, cut, qs, dut)
    BY <1>4 DEF ReadSoFar, Begins
  <1>6. /\ Len(ps) < Len(qs) /\ qs[Len(ps) + 1] \in Piece
        /\ Stands(t, qs[Len(ps) + 1], lead, c)
    BY <1>1, <1>2, <1>4, <1>5, AnotherPiece
  <1>7. qs \in Seq(Piece) /\ Len(qs) \in Nat
    <2>1. Derives(t, qs, dut)
      BY <1>4 DEF Whole
    <2>. QED  BY <1>1, <2>1, CutPlaces
  <1>8. Fits(qs, Len(ps) + 1)
    <2>1. Len(ps) + 1 \in 1 .. Len(qs)
      BY <1>1, <1>6, <1>7
    <2>. QED  BY <1>4, <2>1 DEF AcceptGrammar
  <1>9. Len(ps) > 0 => qs[Len(ps)] = ps[Len(ps)]
    BY <1>1, <1>5 DEF Agree
  <1>. QED  BY <1>6, <1>7, <1>8, <1>9

(* The parser only turns down what breaks the grammar.                       *)
LEMMA OnlyMalformedFails ==
  ASSUME TypeOK, RangesOK, AcceptOK, NEW ps, NEW cut, ReadSoFar(ps, cut), Fails
  PROVE  request.accept.meaning = Malformed
  <1>. SUFFICES ASSUME request.accept.meaning # Malformed PROVE FALSE
    OBVIOUS
  <1>0. pc \in Reading /\ s # <<>>
    BY DEF Fails, ConsumeTypeFails, ConsumeParameterFails, Reading, Starts
  <1>t. PICK t : t = request.accept.tokens
    OBVIOUS
  <1>c. PICK c : c = cut[Len(ps) + 1]
    OBVIOUS
  <1>l. PICK lead : lead = Lead(Len(ps) + 1)
    OBVIOUS
  <1>1. PICK qs \in Seq(Piece), q \in Piece :
            /\ Fits(qs, Len(ps) + 1) /\ q = qs[Len(ps) + 1]
            /\ Len(ps) > 0 => qs[Len(ps)] = ps[Len(ps)]
            /\ Stands(t, q, lead, c)
    BY <1>0, <1>t, <1>c, <1>l, NextPiece
  <1>2. /\ t \in Seq(Token) /\ c \in 1 .. Len(t) + 1 /\ n \in Nat /\ Len(ps) \in Nat
        /\ pc = "range" => (ps = <<>> <=> n = 0)
        /\ pc \in {"parameters", "extensions"} => ps # <<>>
        /\ Len(ps) = 0 <=> ps = <<>>
    BY <1>0, <1>t, <1>c, ReadFacts
  <1>3. /\ Len(Ahead(t, c + lead)) >= 3 /\ Ahead(t, c + lead)[1] = q.name
        /\ Ahead(t, c + lead)[2] = Joins(q.kind) /\ Ahead(t, c + lead)[3] = q.value
        /\ c <= Len(t)
    <2>1. lead \in 0 .. 1
      BY <1>l, LeadIs
    <2>2. c + lead <= Len(t)
      BY <1>1, <1>2, <2>1, PieceAhead
    <2>3. c <= Len(t)
      BY <1>2, <2>1, <2>2, LenProperties
    <2>. QED  BY <1>1, <1>2, <2>1, <2>3, PieceAhead
  <1>4. q.kind \in Kinds /\ q.name \in Words /\ q.value \in Words
    BY DEF Piece
  <1>5. lead = 1 => t[c] = Opens(q.kind)
    BY <1>1 DEF Stands
  <1>6. CASE ConsumeTypeFails
    <2>1. pc = "range" /\ ((n > 0 => Starts(s, Comma)) => ~HasType(NextElement))
      BY <1>6 DEF ConsumeTypeFails
    <2>2. (lead = 0 <=> n = 0) /\ (lead = 1 <=> n > 0) /\ \A x : Starts(s, x) <=> c <= Len(t) /\ t[c] = x
      BY <1>0, <1>t, <1>c, <1>l, <2>1, AheadIs
    <2>3. q.kind = "type"
      <3>1. CASE n = 0
        <4>1. Len(ps) + 1 = 1
          BY <1>2, <2>1, <3>1
        <4>. QED  BY <1>1, <4>1 DEF Fits
      <3>2. CASE n # 0
        <4>1. n > 0 /\ t[c] = Opens(q.kind) /\ ~Starts(s, Semicolon)
          BY <1>2, <1>5, <2>1, <2>2, <3>2 DEF ReadSoFar
        <4>2. Opens(q.kind) # Semicolon
          BY <1>3, <2>2, <4>1
        <4>. QED  BY <1>4, <4>2, KindFacts
      <3>. QED  BY <3>1, <3>2
    <2>4. n > 0 => Starts(s, Comma)
      BY <1>3, <1>4, <1>5, <2>2, <2>3, KindFacts
    <2>5. NextElement = Ahead(t, c + lead)
      BY <1>0, <1>t, <1>c, <1>l, <2>1, <2>4, AheadIs
    <2>6. q.name = "*" => q.value = "*"
      BY <1>1, <2>3 DEF Fits, ProperType
    <2>7. Joins(q.kind) = "/"
      BY <2>3 DEF Joins
    <2>8. HasType(NextElement)
      BY <1>3, <1>4, <2>5, <2>6, <2>7 DEF HasType
    <2>. QED  BY <2>1, <2>4, <2>8
  <1>7. CASE ConsumeParameterFails
    <2>1. /\ pc \in {"parameters", "extensions"} /\ Starts(s, Semicolon)
          /\ HasParameter(Parameter) => /\ pc = "parameters" /\ Parameter[1] = "q"
                                        /\ Parameter[3] \notin DOMAIN Weight
      BY <1>7 DEF ConsumeParameterFails
    <2>2. /\ lead = 1 /\ Parameter = Ahead(t, c + lead) /\ t[c] = Semicolon
      BY <1>0, <1>t, <1>c, <1>l, <2>1, AheadIs
    <2>3. q.kind # "type"
      <3>1. Opens(q.kind) # Comma
        BY <1>5, <2>2, NoBlankWord
      <3>. QED  BY <1>4, <3>1, KindFacts
    <2>4. Joins(q.kind) = "="
      BY <2>3 DEF Joins
    <2>5. HasParameter(Parameter)
      BY <1>3, <1>4, <2>2, <2>4 DEF HasParameter
    <2>6. pc = "parameters" /\ q.name = "q" /\ q.value \notin DOMAIN Weight
      BY <1>3, <2>1, <2>2, <2>5
    <2>7. qs[Len(ps)].kind \in {"type", "parameter"}
      <3>1. ps[Len(ps)].kind \in {"type", "parameter"}
        BY <2>6 DEF ReadSoFar
      <3>2. Len(ps) > 0
        BY <1>2, <2>1
      <3>. QED  BY <1>1, <3>1, <3>2
    <2>8. /\ q.kind = "parameter" => q.name # "q"
          /\ q.kind = "weight" => q.value \in DOMAIN Weight
          /\ q.kind = "extension" => qs[Len(ps)].kind \in {"weight", "extension"}
      <3>1. Len(ps) + 1 - 1 = Len(ps)
        BY <1>2
      <3>. QED  BY <1>1, <2>3, <3>1 DEF Fits
    <2>. QED  BY <1>4, <2>3, <2>6, <2>7, <2>8 DEF Kinds
  <1>. QED  BY <1>6, <1>7 DEF Fails

-----------------------------------------------------------------------------
(* Every step keeps what has been read.                                      *)

LEMMA ReadStep ==
  ASSUME TypeOK, RangesOK, AcceptOK, [Next]_vars, ReadOK
  PROVE  ReadOK'
  <1>0. request' = request
    BY RequestKept
  <1>1. CASE ConsumeType \/ ConsumeParameter \/ ConsumeWeight \/ ConsumeExtension \/ Weigh
    <2>1. pc \in Reading /\ pc' \in Reading
      BY <1>1 DEF ConsumeType, ConsumeParameter, ConsumeWeight, ConsumeExtension, Weigh, Reading
    <2>2. PICK ps, cut : ReadSoFar(ps, cut)
      BY <2>1 DEF ReadOK
    <2>3. \E qs, dut : ReadSoFar(qs, dut)'
      BY <1>0, <1>1, <2>2, TypeIsRead, ParameterIsRead, WeightIsRead, ExtensionIsRead,
         RangeIsRead
    <2>. QED  BY <2>1, <2>3 DEF ReadOK, ReadsWhatWasWritten, Reading
  <1>2. CASE Fails
    <2>1. pc \in Reading /\ pc' = "chosen" /\ best' = 0
      BY <1>2 DEF Fails, ConsumeTypeFails, ConsumeParameterFails, Fail, Reading
    <2>2. PICK ps, cut : ReadSoFar(ps, cut)
      BY <2>1 DEF ReadOK
    <2>3. request.accept.meaning = Malformed
      BY <1>2, <2>2, OnlyMalformedFails
    <2>. QED  BY <1>0, <2>1, <2>3 DEF ReadOK, ReadsWhatWasWritten, Reading
  <1>3. CASE EndOfHeader
    <2>1. pc \in Reading /\ pc' = "select" /\ s = <<>> /\ s' = s /\ ranges' = ranges
      BY <1>3 DEF EndOfHeader, choice, Reading
    <2>2. PICK ps, cut : ReadSoFar(ps, cut)
      BY <2>1 DEF ReadOK
    <2>3. request.accept.meaning # Malformed /\ ranges = request.accept.meaning
      BY <1>3, <2>2, AllIsRead
    <2>. QED  BY <1>0, <2>1, <2>3 DEF ReadOK, ReadsWhatWasWritten, Reading
  <1>4. CASE Select \/ EndOfSelection
    <2>1. pc = "select" /\ pc' \in {"select", "chosen"} /\ s' = s /\ ranges' = ranges
      BY <1>4 DEF Select, EndOfSelection, choice
    <2>. QED  BY <1>0, <2>1 DEF ReadOK, ReadsWhatWasWritten, Reading
  <1>5. CASE Calls
    <2>1. pc' = "range"
      BY <1>5, CallResets
    <2>. QED  BY <1>0, <1>5, <2>1, NothingIsRead DEF ReadOK, ReadsWhatWasWritten
  <1>6. CASE UNCHANGED vars
    <2>1. UNCHANGED <<request, pc, s, range, n, best, ranges>>
      BY <1>6 DEF vars, choice
    <2>2. \A ps, cut : ReadSoFar(ps, cut) => ReadSoFar(ps, cut)'
      BY <2>1 DEF ReadSoFar
    <2>. QED  BY <2>1, <2>2 DEF ReadOK, ReadsWhatWasWritten
  <1>7. CASE \/ MatchByAcceptHeader \/ LogoutWithoutAccept \/ LogoutStatus
             \/ WithoutContentType \/ ParseType \/ ParseParameter \/ ParseFails
             \/ EndOfContentType \/ ReadBody
    <2>1. pc' \notin Reading \cup {"select", "chosen"}
      BY <1>7 DEF MatchByAcceptHeader, LogoutWithoutAccept, LogoutStatus, Return,
         WithoutContentType, ParseType, ParseParameter, ParseFails, EndOfContentType,
         ReadBody, Reading
    <2>. QED  BY <2>1 DEF ReadOK, ReadsWhatWasWritten
  <1>. QED  BY <1>1, <1>2, <1>3, <1>4, <1>5, <1>6, <1>7
            DEF Next, Step, Terminating, Fails, Calls

(* The hypothesis of the next theorem can be met, whatever is sent: every    *)
(* header has a meaning.                                                     *)
LEMMA EveryHeaderMeans ==
  ASSUME NEW t, Tokenised(t), Malformed \notin Seq(MediaRange)
  PROVE  \E m \in Seq(MediaRange) \cup {Malformed} :
            AcceptMeans([present |-> TRUE, tokens |-> t, meaning |-> m])
  <1>1. CASE \E rs \in Seq(MediaRange) : Written(t, rs)
    <2>1. PICK rs \in Seq(MediaRange) : Written(t, rs)
      BY <1>1
    <2>2. AcceptMeans([present |-> TRUE, tokens |-> t, meaning |-> rs])
      BY <2>1 DEF AcceptMeans
    <2>. QED  BY <2>2
  <1>2. CASE \A rs \in Seq(MediaRange) : ~Written(t, rs)
    <2>1. AcceptMeans([present |-> TRUE, tokens |-> t, meaning |-> Malformed])
      BY <1>2 DEF AcceptMeans
    <2>. QED  BY <2>1
  <1>. QED  BY <1>1, <1>2

(* Where the meaning of every Accept header is the one that RFC 7231 gives   *)
(* it, the parser reads the ranges that were written, in their order, with   *)
(* their parameters and weights, and fails on what breaks the grammar and on *)
(* nothing else; however long the header is.                                 *)
THEOREM HeadersAreRead ==
  ASSUME AcceptHeadersMean
  PROVE  Spec => []ReadsWhatWasWritten
  <1>1. Init => AcceptOK /\ ReadOK
    BY DEF Init, AcceptOK, AcceptHeadersMean, ReadOK, ReadsWhatWasWritten, Reading
  <1>2. AcceptOK /\ [Next]_vars => AcceptOK'
    BY RequestKept DEF AcceptOK
  <1>3. IInv /\ AcceptOK /\ ReadOK /\ [Next]_vars => ReadOK'
    BY ReadStep DEF IInv
  <1>4. ReadOK => ReadsWhatWasWritten
    BY DEF ReadOK
  <1>. QED  BY <1>1, <1>2, <1>3, <1>4, Invariance, PTL DEF Spec

-----------------------------------------------------------------------------
(* Reading a Content-Type header, piece by piece.                            *)

TypeBegins(t, ps, cut) ==
    /\ Derives(t, ps, cut) /\ (ps # <<>> => TypeGrammar(ps))
    /\ \A qs, dut : Whole(t, qs, dut) /\ TypeGrammar(qs) => Agree(ps, cut, qs, dut)

(* The piece p goes on with the media type.                                  *)
GoesOn(ps, p) ==
    /\ p.of = 1
    /\ p.kind = (IF ps = <<>> THEN "type" ELSE "parameter")
    /\ ps = <<>> => ProperType(p)

LEMMA TypeGrammarMore ==
  ASSUME NEW ps \in Seq(Piece), ps # <<>> => TypeGrammar(ps), NEW p \in Piece, GoesOn(ps, p)
  PROVE  TypeGrammar(Append(ps, p))
  <1>1. PICK m \in Nat : m = Len(ps) /\ (ps = <<>> <=> m = 0)
    BY CountIs, LenProperties
  <1>2. PICK qs : qs = Append(ps, p)
    OBVIOUS
  <1>3. /\ Len(qs) = m + 1 /\ qs # <<>> /\ qs[m + 1] = p
        /\ \A i \in 1 .. m : qs[i] = ps[i]
    BY <1>1, <1>2, MorePieces
  <1>4. ASSUME NEW i \in 1 .. m + 1
        PROVE  (qs[i].kind = IF i = 1 THEN "type" ELSE "parameter") /\ qs[i].of = 1
    <2>1. CASE i = m + 1
      BY <1>1, <1>3, <2>1 DEF GoesOn
    <2>2. CASE i # m + 1
      <3>1. i \in 1 .. m /\ TypeGrammar(ps)
        BY <1>1, <2>2
      <3>. QED  BY <1>1, <1>3, <3>1 DEF TypeGrammar
    <2>. QED  BY <2>1, <2>2
  <1>5. ProperType(qs[1])
    <2>1. CASE m = 0
      BY <1>1, <1>3, <2>1 DEF GoesOn
    <2>2. CASE m # 0
      <3>1. 1 \in 1 .. m /\ TypeGrammar(ps)
        BY <1>1, <2>2
      <3>. QED  BY <1>3, <3>1 DEF TypeGrammar
    <2>. QED  BY <2>1, <2>2
  <1>. QED  BY <1>2, <1>3, <1>4, <1>5 DEF TypeGrammar

(* The next piece of a media type is the only one there can be.              *)
LEMMA TypeBeginsMore ==
  ASSUME NEW t \in Seq(Token), NEW ps, NEW cut, TypeBegins(t, ps, cut), NEW p \in Piece,
         Stands(t, p, Lead(Len(ps) + 1), cut[Len(ps) + 1]),
         ~Starts(From(t, EndOf(ps, cut, p)), Blank), GoesOn(ps, p)
  PROVE  TypeBegins(t, Append(ps, p), Append(cut, EndOf(ps, cut, p)))
  <1>1. Derives(t, ps, cut) /\ ps \in Seq(Piece)
    BY DEF TypeBegins, Derives
  <1>2. PICK m \in Nat : m = Len(ps) /\ (ps = <<>> <=> m = 0)
    BY <1>1, CountIs, LenProperties
  <1>3. Derives(t, Append(ps, p), Append(cut, EndOf(ps, cut, p)))
    BY <1>1, DerivesMore
  <1>4. TypeGrammar(Append(ps, p))
    BY <1>1, TypeGrammarMore DEF TypeBegins
  <1>5. ASSUME NEW qs, NEW dut, Whole(t, qs, dut), TypeGrammar(qs)
        PROVE  Agree(Append(ps, p), Append(cut, EndOf(ps, cut, p)), qs, dut)
    <2>1. Agree(ps, cut, qs, dut)
      BY <1>5 DEF TypeBegins
    <2>2. cut[m + 1] \in 1 .. Len(t) + 1 /\ Len(t) \in Nat
      <3>1. m + 1 \in 1 .. Len(ps) + 1
        BY <1>2
      <3>. QED  BY <1>1, <1>2, <3>1, CutPlaces
    <2>3. cut[m + 1] <= Len(t)
      <3>1. cut[m + 1] + Lead(m + 1) <= Len(t)
        BY <1>2, <2>2, LeadIs, PieceAhead
      <3>. QED  BY <2>2, <3>1 DEF Lead
    <2>4. m < Len(qs)
      BY <1>1, <1>2, <1>5, <2>1, <2>3, AnotherPiece
    <2>5. Len(qs) \in Nat
      <3>1. Derives(t, qs, dut)
        BY <1>5 DEF Whole
      <3>. QED  BY <3>1, CutPlaces
    <2>6. qs[m + 1].kind = p.kind /\ qs[m + 1].of = p.of
      <3>1. m + 1 \in 1 .. Len(qs) /\ (m + 1 = 1 <=> m = 0)
        BY <2>4, <2>5
      <3>2. (qs[m + 1].kind = IF m + 1 = 1 THEN "type" ELSE "parameter") /\ qs[m + 1].of = 1
        BY <1>5, <3>1 DEF TypeGrammar
      <3>. QED  BY <1>2, <3>1, <3>2 DEF GoesOn
    <2>. QED  BY <1>1, <1>2, <1>5, <2>1, <2>4, <2>6, AgreeMore
  <1>. QED  BY <1>3, <1>4, <1>5 DEF TypeBegins

(* With the piece p, the beginning ps goes on behind the tokens x.           *)
TypeOneMore(t, ps, x, kind, p, dut) ==
    /\ p.kind = kind /\ p.of = 1 /\ p.name = x[1] /\ p.value = x[3]
    /\ GoesOn(ps, p) => TypeBegins(t, Append(ps, p), dut)
    /\ SkipWhitespaces(From(x, 4)) = From(t, dut[Len(Append(ps, p)) + 1])
    /\ ~Starts(SkipWhitespaces(From(x, 4)), Blank)

LEMMA TypeOnePieceMore ==
  ASSUME NEW t \in Seq(Token), Tokenised(t), NEW ps, NEW cut, TypeBegins(t, ps, cut),
         NEW lead, lead = Lead(Len(ps) + 1), NEW c, c = cut[Len(ps) + 1],
         NEW kind \in Kinds, NEW x, IsNext(t, lead, c, x, kind)
  PROVE  \E p \in Piece : \E dut : TypeOneMore(t, ps, x, kind, p, dut)
  <1>1. Derives(t, ps, cut) /\ ps \in Seq(Piece) /\ Len(ps) \in Nat
        /\ cut \in Seq(Nat \ {0}) /\ Len(cut) = Len(ps) + 1
    BY LenProperties DEF TypeBegins, Derives
  <1>2. c \in 1 .. Len(t) + 1 /\ lead \in 0 .. 1
    <2>1. Len(ps) + 1 \in 1 .. Len(ps) + 1
      BY <1>1
    <2>. QED  BY <1>1, <2>1, CutPlaces, LeadIs
  <1>o. PICK of \in Nat \ {0} : of = 1
    OBVIOUS
  <1>p. PICK p : p = ThatPiece(t, lead, c, x, kind, of)
    OBVIOUS
  <1>3. /\ p \in Piece /\ p.kind = kind /\ p.of = of /\ p.name = x[1] /\ p.value = x[3]
        /\ Stands(t, p, lead, c)
        /\ c + Width(p, lead) \in 1 .. Len(t) + 1
        /\ SkipWhitespaces(From(x, 4)) = From(t, c + Width(p, lead))
        /\ ~Starts(From(t, c + Width(p, lead)), Blank)
    BY <1>2, <1>p, PieceMade, SMTT(30)
  <1>4. c + Width(p, lead) = EndOf(ps, cut, p)
    BY DEF EndOf
  <1>. DEFINE e == EndOf(ps, cut, p)
  <1>5. GoesOn(ps, p) => TypeBegins(t, Append(ps, p), Append(cut, e))
    BY <1>3, <1>4, TypeBeginsMore
  <1>6. Append(cut, e)[Len(Append(ps, p)) + 1] = e
    <2>1. e \in Nat \ {0} /\ Len(Append(ps, p)) + 1 = Len(cut) + 1
      BY <1>1, <1>3, <1>4, MorePieces
    <2>. HIDE DEF e
    <2>. QED  BY <1>1, <2>1, AppendProperties
  <1>7. TypeOneMore(t, ps, x, kind, p, Append(cut, e))
    BY <1>3, <1>4, <1>5, <1>6, <1>o DEF TypeOneMore
  <1>. QED  BY <1>3, <1>7

(* In a header that keeps to the grammar there is another piece.             *)
LEMMA TypeNextPiece ==
  ASSUME NEW t \in Seq(Token), NEW ps, NEW cut, TypeBegins(t, ps, cut),
         NEW qs, NEW dut, Whole(t, qs, dut), TypeGrammar(qs),
         NEW c, c = cut[Len(ps) + 1], NEW lead, lead = Lead(Len(ps) + 1),
         c <= Len(t) \/ ps = <<>>
  PROVE  \E q \in Piece :
            /\ GoesOn(ps, q)
            /\ lead = 1 => t[c] = Opens(q.kind)
            /\ Len(Ahead(t, c + lead)) >= 3 /\ Ahead(t, c + lead)[1] = q.name
            /\ Ahead(t, c + lead)[2] = Joins(q.kind) /\ Ahead(t, c + lead)[3] = q.value
  <1>1. Derives(t, ps, cut) /\ ps \in Seq(Piece) /\ Agree(ps, cut, qs, dut)
    BY DEF TypeBegins, Derives
  <1>2. PICK m \in Nat : m = Len(ps) /\ (ps = <<>> <=> m = 0)
    BY <1>1, CountIs, LenProperties
  <1>3. Derives(t, qs, dut) /\ qs \in Seq(Piece) /\ Len(qs) \in Nat /\ Len(qs) # 0
    <2>1. Derives(t, qs, dut)
      BY DEF Whole
    <2>. QED  BY <2>1, CutPlaces, CountIs DEF TypeGrammar
  <1>4. m < Len(qs)
    <2>1. CASE ps = <<>>
      BY <1>2, <1>3, <2>1
    <2>2. CASE c <= Len(t)
      BY <1>1, <1>2, <2>2, AnotherPiece
    <2>. QED  BY <2>1, <2>2
  <1>5. PICK q \in Piece : q = qs[m + 1] /\ Stands(t, q, lead, c)
    <2>1. qs[m + 1] \in Piece /\ Stands(t, qs[m + 1], lead, c)
      BY <1>1, <1>2, <1>4, AnotherPiece
    <2>. QED  BY <2>1
  <1>6. GoesOn(ps, q)
    <2>1. m + 1 \in 1 .. Len(qs) /\ (m + 1 = 1 <=> m = 0)
      BY <1>3, <1>4
    <2>2. (q.kind = IF m + 1 = 1 THEN "type" ELSE "parameter") /\ q.of = 1
      BY <1>5, <2>1 DEF TypeGrammar
    <2>3. m = 0 => ProperType(q)
      BY <1>5 DEF TypeGrammar
    <2>. QED  BY <1>2, <2>1, <2>2, <2>3 DEF GoesOn
  <1>7. c \in 1 .. Len(t) + 1 /\ lead \in 0 .. 1
    <2>1. Len(ps) + 1 \in 1 .. Len(ps) + 1
      BY <1>2
    <2>. QED  BY <1>1, <2>1, CutPlaces, LeadIs
  <1>8. lead = 1 => t[c] = Opens(q.kind)
    BY <1>5 DEF Stands
  <1>9. /\ Len(Ahead(t, c + lead)) >= 3 /\ Ahead(t, c + lead)[1] = q.name
        /\ Ahead(t, c + lead)[2] = Joins(q.kind) /\ Ahead(t, c + lead)[3] = q.value
    <2>1. Stands(t, q, lead, c)
      BY <1>5
    <2>. QED  BY <1>7, <2>1, PieceAhead
  <1>. QED  BY <1>6, <1>8, <1>9

(* What has been read of the media type of the body.                         *)
TypeReadSoFar(ps, cut) ==
    /\ TypeBegins(request.contentType.tokens, ps, cut) /\ ps # <<>>
    /\ s = From(request.contentType.tokens, cut[Len(ps) + 1])
    /\ ~Starts(s, Blank)
    /\ Types(ps, 1, media) /\ media.made

ContentTypeOK == ContentTypeMeans(request.contentType)

(* A reader has been chosen by what the Content-Type means.                  *)
Verdict ==
    /\ (reader = "error") <=> (request.contentType.meaning = Malformed)
    /\ reader # "error" => reader = "form"

FormInv == request.route # "logout" =>
    /\ caller # "logout"
    /\ media # Json
    /\ pc \in {"handler", "bodyParameters", "read"} =>
         reader = "none" /\ (mapper = "none" <=> request.route = "login")
    /\ pc \in ParserLabels \cup {"mapping"} =>
         mapper = "none" /\ (reader = "none" <=> request.route = "addItem")
    /\ pc = "done" => reader # "none"
    /\ reader # "none" => Verdict
    /\ pc = "read" => request.contentType.meaning # Malformed
    /\ pc = "bodyParameters" => /\ request.contentType.present
                                /\ \E ps, cut : TypeReadSoFar(ps, cut)

(* Only the type and the parameters count.                                   *)
LEMMA SameTypes ==
  ASSUME NEW ps, NEW j, NEW r, NEW m, m.type = r.type, m.subtype = r.subtype,
         m.parameters = r.parameters
  PROVE  Types(ps, j, r) <=> Types(ps, j, m)
  BY DEF Types

(* No piece is the beginning of every header.                                *)
LEMMA NothingOfType ==
  ASSUME NEW t \in Seq(Token)
  PROVE  TypeBegins(t, <<>>, <<1>>) /\ Lead(Len(<<>>) + 1) = 0 /\ <<1>>[Len(<<>>) + 1] = 1
  <1>p. PICK ps : ps = <<>> /\ ps \in Seq(Piece)
    BY EmptySeq
  <1>c. PICK cut : cut = <<1>> /\ cut \in Seq(Nat \ {0})
    <2>1. 1 \in Nat \ {0}
      OBVIOUS
    <2>2. <<1>> \in Seq(Nat \ {0})
      BY <2>1
    <2>. QED  BY <2>2
  <1>2. Len(ps) = 0 /\ Len(cut) = 1 /\ cut[1] = 1 /\ ps = <<>> /\ cut[Len(ps) + 1] = 1
    BY <1>p, <1>c
  <1>3. Derives(t, ps, cut)
    BY <1>2, <1>p, <1>c DEF Derives
  <1>5. ASSUME NEW qs, NEW dut, Whole(t, qs, dut) PROVE Agree(ps, cut, qs, dut)
    <2>1. dut[1] = 1 /\ Len(qs) \in Nat
      BY <1>5, CutPlaces DEF Whole, Derives
    <2>. QED  BY <1>2, <2>1 DEF Agree
  <1>6. TypeBegins(t, ps, cut)
    BY <1>2, <1>3, <1>5 DEF TypeBegins
  <1>7. Lead(Len(ps) + 1) = 0
    BY <1>2 DEF Lead
  <1>. QED  BY <1>2, <1>6, <1>7, <1>p, <1>c

(* Where ParseType begins.                                                   *)
LEMMA ContentTypeOpens ==
  ASSUME NEW t \in Seq(Token)
  PROVE  SkipWhitespaces(t) = Ahead(t, 1 + 0) /\ 1 + 0 <= Len(t) + 1
  <1>1. t = From(t, 1) /\ Len(t) \in Nat
    BY LenProperties, SubSeqFull DEF From
  <1>2. 1 + 0 = 1
    OBVIOUS
  <1>. QED  BY <1>1, <1>2 DEF Ahead

(* ParseType reads the type.                                                 *)
LEMMA BodyTypeIsRead ==
  ASSUME TypeOK, ContentTypeOK, request' = request, ParseType
  PROVE  \E ps, cut : TypeReadSoFar(ps, cut)'
  <1>t. PICK t \in Seq(Token) : t = request.contentType.tokens
    BY HeaderTypes
  <1>x. PICK x : x = SkipWhitespaces(t)
    OBVIOUS
  <1>p. PICK ps : ps = <<>> /\ ps \in Seq(Piece)
    BY EmptySeq
  <1>c. PICK cut : cut = <<1>>
    OBVIOUS
  <1>k. PICK kind \in Kinds : kind = "type"
    BY DEF Kinds
  <1>1. /\ HasType(x) /\ s' = SkipWhitespaces(From(x, 4))
        /\ media' = [type |-> x[1], subtype |-> x[3], parameters |-> {}, made |-> TRUE]
    BY <1>t, <1>x DEF ParseType
  <1>2. TypeBegins(t, ps, cut) /\ Lead(Len(ps) + 1) = 0 /\ cut[Len(ps) + 1] = 1
    BY <1>p, <1>c, NothingOfType
  <1>3. IsNext(t, 0, 1, x, kind)
    <2>1. x = Ahead(t, 1 + 0) /\ 1 + 0 <= Len(t) + 1
      BY <1>x, ContentTypeOpens
    <2>2. /\ Len(x) >= 3 /\ x[1] \in Words /\ x[2] = Joins(kind) /\ x[3] \in Words
      BY <1>1, <1>k, TypeFacts
    <2>. QED  BY <2>1, <2>2 DEF IsNext
  <1>4. Tokenised(t)
    BY <1>t DEF ContentTypeOK, ContentTypeMeans
  <1>w. PICK p \in Piece : \E dut : TypeOneMore(t, ps, x, kind, p, dut)
    BY <1>2, <1>3, <1>4, TypeOnePieceMore
  <1>5. PICK dut : TypeOneMore(t, ps, x, kind, p, dut)
    BY <1>w
  <1>6. /\ p.kind = kind /\ p.of = 1 /\ p.name = x[1] /\ p.value = x[3]
        /\ GoesOn(ps, p) => TypeBegins(t, Append(ps, p), dut)
        /\ SkipWhitespaces(From(x, 4)) = From(t, dut[Len(Append(ps, p)) + 1])
        /\ ~Starts(SkipWhitespaces(From(x, 4)), Blank)
    BY <1>5 DEF TypeOneMore
  <1>7. GoesOn(ps, p)
    <2>1. ProperType(p)
      BY <1>1, <1>6, TypeFacts DEF ProperType
    <2>. QED  BY <1>6, <1>k, <1>p, <2>1 DEF GoesOn
  <1>8. Types(Append(ps, p), 1, media')
    <2>1. PICK r : r = [type |-> p.name, subtype |-> p.value, parameters |-> {}, weight |-> 1000]
      BY ZenonT(40)
    <2>2. \A i \in 1 .. Len(ps) : ps[i].of # p.of
      BY <1>p
    <2>3. Says(Append(ps, p), p.of, r)
      <3>1. ps \in Seq(Piece) /\ p.kind = "type"
        BY <1>6, <1>k, <1>p
      <3>. QED  BY <2>1, <2>2, <3>1, TypeSays
    <2>4. Types(Append(ps, p), 1, r)
      BY <1>6, <2>3 DEF Says
    <2>5. media'.type = r.type /\ media'.subtype = r.subtype /\ media'.parameters = r.parameters
      BY <1>1, <1>6, <2>1
    <2>. QED  BY <2>4, <2>5, SameTypes
  <1>9. Append(ps, p) # <<>>
    BY <1>p, MorePieces
  <1>. PICK qs : qs = Append(ps, p)
    OBVIOUS
  <1>10. TypeReadSoFar(qs, dut)'
    BY <1>1, <1>6, <1>7, <1>8, <1>9, <1>t DEF TypeReadSoFar
  <1>. QED  BY <1>10

(* What is known of the header while its parameters are read.                *)
LEMMA TypeReadFacts ==
  ASSUME TypeOK, ContentTypeOK, NEW ps, NEW cut, TypeReadSoFar(ps, cut),
         NEW t, t = request.contentType.tokens, NEW c, c = cut[Len(ps) + 1],
         NEW lead, lead = Lead(Len(ps) + 1)
  PROVE  /\ t \in Seq(Token) /\ Tokenised(t) /\ TypeBegins(t, ps, cut)
         /\ ps \in Seq(Piece) /\ ps # <<>> /\ lead = 1 /\ c \in 1 .. Len(t) + 1
         /\ s = <<>> <=> c = Len(t) + 1
         /\ \A x : Starts(s, x) <=> c <= Len(t) /\ t[c] = x
         /\ Starts(s, Semicolon) => Parameter = Ahead(t, c + lead) /\ c + lead <= Len(t) + 1
  <1>1. /\ t \in Seq(Token) /\ Tokenised(t) /\ TypeBegins(t, ps, cut) /\ ps # <<>>
        /\ s = From(t, c)
    BY HeaderTypes DEF ContentTypeOK, ContentTypeMeans, TypeReadSoFar
  <1>2. Derives(t, ps, cut) /\ ps \in Seq(Piece)
    BY <1>1 DEF TypeBegins, Derives
  <1>3. Len(ps) \in Nat /\ Len(ps) # 0 /\ lead = 1
    BY <1>1, <1>2, CountIs, LenProperties DEF Lead
  <1>4. c \in 1 .. Len(t) + 1 /\ Len(t) \in Nat
    <2>1. Len(ps) + 1 \in 1 .. Len(ps) + 1
      BY <1>3
    <2>. QED  BY <1>1, <1>2, <2>1, CutPlaces
  <1>5. s = <<>> <=> c = Len(t) + 1
    BY <1>1, <1>4, RestFirst
  <1>6. \A x : Starts(s, x) <=> c <= Len(t) /\ t[c] = x
    BY <1>1, <1>4, RestFirst
  <1>7. ASSUME Starts(s, Semicolon)
        PROVE  Parameter = Ahead(t, c + lead) /\ c + lead <= Len(t) + 1
    <2>1. c <= Len(t) /\ c + lead = c + 1
      BY <1>3, <1>6, <1>7
    <2>2. Tail(s) = From(t, c + 1)
      BY <1>1, <1>4, <2>1, RestFirst
    <2>3. c + lead <= Len(t) + 1
      BY <1>4, <2>1
    <2>. QED  BY <2>1, <2>2, <2>3 DEF Parameter, Ahead
  <1>. QED  BY <1>1, <1>2, <1>3, <1>4, <1>5, <1>6, <1>7

LEMMA MediaTypeParts ==
  ASSUME NEW m \in MediaType
  PROVE  /\ m.parameters \in Parameters
         /\ \A P : /\ [m EXCEPT !.parameters = P].type = m.type
                   /\ [m EXCEPT !.parameters = P].subtype = m.subtype
                   /\ [m EXCEPT !.parameters = P].parameters = P
  <1>1. m.parameters \in Parameters
    BY Zenon DEF MediaType
  <1>2. ASSUME NEW P
        PROVE  /\ [m EXCEPT !.parameters = P].type = m.type
               /\ [m EXCEPT !.parameters = P].subtype = m.subtype
               /\ [m EXCEPT !.parameters = P].parameters = P
    BY Zenon DEF MediaType
  <1>. QED  BY <1>1, <1>2

(* ParseParameter reads a parameter.                                         *)
LEMMA BodyParameterIsRead ==
  ASSUME TypeOK, ContentTypeOK, request' = request, NEW ps, NEW cut, TypeReadSoFar(ps, cut),
         ParseParameter
  PROVE  \E qs, dut : TypeReadSoFar(qs, dut)'
  <1>t. PICK t : t = request.contentType.tokens
    OBVIOUS
  <1>c. PICK c : c = cut[Len(ps) + 1]
    OBVIOUS
  <1>l. PICK lead : lead = Lead(Len(ps) + 1)
    OBVIOUS
  <1>x. PICK x : x = Parameter
    OBVIOUS
  <1>k. PICK kind \in Kinds : kind = "parameter"
    BY DEF Kinds
  <1>1. /\ Starts(s, Semicolon) /\ HasParameter(x) /\ s' = SkipWhitespaces(From(x, 4))
        /\ media' = [media EXCEPT !.parameters = Put(@, x[1], x[3])]
    BY <1>x DEF ParseParameter
  <1>2. /\ t \in Seq(Token) /\ Tokenised(t) /\ TypeBegins(t, ps, cut)
        /\ ps \in Seq(Piece) /\ ps # <<>>
        /\ t[c] = Semicolon /\ x = Ahead(t, c + lead) /\ c + lead <= Len(t) + 1
    BY <1>1, <1>t, <1>c, <1>l, <1>x, TypeReadFacts
  <1>3. IsNext(t, lead, c, x, kind)
    <2>1. Opens(kind) = Semicolon
      BY <1>k, KindFacts
    <2>. QED  BY <1>1, <1>2, <1>k, <2>1, ParameterFacts DEF IsNext
  <1>w. PICK p \in Piece : \E dut : TypeOneMore(t, ps, x, kind, p, dut)
    BY <1>2, <1>3, <1>c, <1>l, TypeOnePieceMore
  <1>5. PICK dut : TypeOneMore(t, ps, x, kind, p, dut)
    BY <1>w
  <1>6. /\ p.kind = kind /\ p.of = 1 /\ p.name = x[1] /\ p.value = x[3]
        /\ GoesOn(ps, p) => TypeBegins(t, Append(ps, p), dut)
        /\ SkipWhitespaces(From(x, 4)) = From(t, dut[Len(Append(ps, p)) + 1])
        /\ ~Starts(SkipWhitespaces(From(x, 4)), Blank)
    BY <1>5 DEF TypeOneMore
  <1>7. GoesOn(ps, p)
    BY <1>2, <1>6, <1>k DEF GoesOn
  <1>8. media \in MediaType /\ Types(ps, 1, media) /\ media.made
    BY DEF TypeReadSoFar, TypeOK
  <1>9. Types(Append(ps, p), 1, media')
    <2>1. PICK r : r = [type |-> media.type, subtype |-> media.subtype,
                        parameters |-> media.parameters, weight |-> 1000]
      BY ZenonT(40)
    <2>2. r.type = media.type /\ r.subtype = media.subtype /\ r.parameters = media.parameters
          /\ r.weight = 1000
      BY <2>1
    <2>3. media.type \in Words /\ media.subtype \in Words
      <3>1. PICK i \in 1 .. Len(ps) : media.type = ps[i].name /\ media.subtype = ps[i].value
        BY <1>8 DEF Types
      <3>2. ps[i] \in Piece
        BY <1>2, ElementOfSeq
      <3>. QED  BY <3>1, <3>2 DEF Piece
    <2>4. r \in MediaRange
      <3>1. media.parameters \in Parameters
        BY <1>8, MediaTypeParts
      <3>. QED  BY <2>1, <2>3, <3>1 DEF MediaRange
    <2>5. Types(ps, 1, r)
      BY <1>8, <2>2, SameTypes
    <2>6. Of(ps, 1, "weight") = {}
      <3>1. \A i \in 1 .. Len(ps) : ps[i].kind # "weight"
        BY <1>2 DEF TypeBegins, TypeGrammar
      <3>. QED  BY <3>1 DEF Of
    <2>7. Says(ps, p.of, r)
      BY <1>6, <2>2, <2>5, <2>6 DEF Says
    <2>8. Says(Append(ps, p), p.of, [r EXCEPT !.parameters = Put(@, p.name, p.value)])
      <3>1. p.kind = "parameter"
        BY <1>6, <1>k
      <3>. QED  BY <1>2, <2>4, <2>7, <3>1, ParameterSays
    <2>9. PICK q : q = [r EXCEPT !.parameters = Put(@, p.name, p.value)]
      OBVIOUS
    <2>10. Types(Append(ps, p), 1, q)
      BY <1>6, <2>8, <2>9 DEF Says
    <2>11. /\ media'.type = q.type /\ media'.subtype = q.subtype
           /\ media'.parameters = q.parameters
      <3>1. /\ media'.type = media.type /\ media'.subtype = media.subtype
            /\ media'.parameters = Put(media.parameters, x[1], x[3])
        BY <1>1, <1>8, MediaTypeParts
      <3>2. /\ q.type = media.type /\ q.subtype = media.subtype
            /\ q.parameters = Put(media.parameters, p.name, p.value)
        BY <2>1, <2>9
      <3>. QED  BY <1>6, <3>1, <3>2
    <2>. QED  BY <2>10, <2>11, SameTypes
  <1>10. media'.made
    BY <1>1, <1>8, Zenon DEF MediaType
  <1>11. Append(ps, p) # <<>>
    BY <1>2, MorePieces
  <1>. PICK qs : qs = Append(ps, p)
    OBVIOUS
  <1>12. TypeReadSoFar(qs, dut)'
    BY <1>1, <1>6, <1>7, <1>9, <1>10, <1>11, <1>t DEF TypeReadSoFar
  <1>. QED  BY <1>12

(* What is left at the end is nothing, and the type is the one written.      *)
LEMMA BodyTypeIsWhole ==
  ASSUME TypeOK, ContentTypeOK, request.contentType.present, NEW ps, NEW cut,
         TypeReadSoFar(ps, cut), s = <<>>
  PROVE  request.contentType.meaning # Malformed
  <1>t. PICK t : t = request.contentType.tokens
    OBVIOUS
  <1>1. TypeBegins(t, ps, cut) /\ ps # <<>> /\ cut[Len(ps) + 1] = Len(t) + 1
    BY <1>t, TypeReadFacts
  <1>2. Whole(t, ps, cut) /\ TypeGrammar(ps)
    BY <1>1 DEF TypeBegins, Whole
  <1>3. media \in MediaType /\ Types(ps, 1, media) /\ media.made
    BY DEF TypeReadSoFar, TypeOK
  <1>4. TypeWritten(t, media)
    BY <1>2, <1>3 DEF TypeWritten
  <1>. QED  BY <1>3, <1>4, <1>t DEF ContentTypeOK, ContentTypeMeans

(* ParseMediaType only turns down what breaks the grammar.                   *)
LEMMA OnlyMalformedTypeFails ==
  ASSUME TypeOK, ContentTypeOK, ParseFails,
         pc = "bodyParameters" => /\ request.contentType.present
                                  /\ \E ps, cut : TypeReadSoFar(ps, cut)
  PROVE  request.contentType.meaning = Malformed
  <1>. SUFFICES ASSUME request.contentType.meaning # Malformed PROVE FALSE
    OBVIOUS
  <1>t. PICK t \in Seq(Token) : t = request.contentType.tokens
    BY HeaderTypes
  <1>1. request.contentType.present
    BY DEF ParseFails
  <1>2. PICK qs, dut : Whole(t, qs, dut) /\ TypeGrammar(qs)
    BY <1>1, <1>t DEF ContentTypeOK, ContentTypeMeans, TypeWritten
  <1>3. CASE pc = "handler"
    <2>1. ~HasType(SkipWhitespaces(t))
      BY <1>3, <1>t DEF ParseFails
    <2>2. TypeBegins(t, <<>>, <<1>>) /\ Lead(Len(<<>>) + 1) = 0 /\ <<1>>[Len(<<>>) + 1] = 1
      BY NothingOfType
    <2>3. PICK ps, cut : ps = <<>> /\ cut = <<1>>
      OBVIOUS
    <2>4. TypeBegins(t, ps, cut) /\ Lead(Len(ps) + 1) = 0 /\ cut[Len(ps) + 1] = 1 /\ ps = <<>>
      BY <2>2, <2>3
    <2>5. PICK q \in Piece :
            /\ GoesOn(ps, q)
            /\ Len(Ahead(t, 1 + 0)) >= 3 /\ Ahead(t, 1 + 0)[1] = q.name
            /\ Ahead(t, 1 + 0)[2] = Joins(q.kind) /\ Ahead(t, 1 + 0)[3] = q.value
      BY <1>2, <2>4, TypeNextPiece
    <2>6. PICK x : x = SkipWhitespaces(t) /\ x = Ahead(t, 1 + 0)
      BY ContentTypeOpens
    <2>7. q.kind = "type" /\ (q.name = "*" => q.value = "*")
      BY <2>4, <2>5 DEF GoesOn, ProperType
    <2>8. Joins(q.kind) = "/" /\ q.name \in Words /\ q.value \in Words
      BY <2>7 DEF Joins, Piece
    <2>9. HasType(x)
      BY <2>5, <2>6, <2>7, <2>8 DEF HasType
    <2>. QED  BY <2>1, <2>6, <2>9
  <1>4. CASE pc = "bodyParameters"
    <2>1. PICK ps, cut : TypeReadSoFar(ps, cut)
      BY <1>4
    <2>c. PICK c : c = cut[Len(ps) + 1]
      OBVIOUS
    <2>l. PICK lead : lead = Lead(Len(ps) + 1)
      OBVIOUS
    <2>2. /\ TypeBegins(t, ps, cut) /\ ps # <<>> /\ lead = 1 /\ c \in 1 .. Len(t) + 1
          /\ s = <<>> <=> c = Len(t) + 1
          /\ \A x : Starts(s, x) <=> c <= Len(t) /\ t[c] = x
          /\ Starts(s, Semicolon) => Parameter = Ahead(t, c + lead)
      BY <1>t, <2>1, <2>c, <2>l, TypeReadFacts
    <2>3. s # <<>> /\ ~(Starts(s, Semicolon) /\ HasParameter(Parameter))
      BY <1>4 DEF ParseFails, Starts
    <2>4. c <= Len(t)
      <3>1. Len(t) \in Nat
        BY LenProperties
      <3>. QED  BY <2>2, <2>3, <3>1
    <2>5. PICK q \in Piece :
            /\ GoesOn(ps, q)
            /\ lead = 1 => t[c] = Opens(q.kind)
            /\ Len(Ahead(t, c + lead)) >= 3 /\ Ahead(t, c + lead)[1] = q.name
            /\ Ahead(t, c + lead)[2] = Joins(q.kind) /\ Ahead(t, c + lead)[3] = q.value
      BY <1>2, <2>2, <2>4, <2>c, <2>l, TypeNextPiece
    <2>6. q.kind = "parameter" /\ q.name \in Words /\ q.value \in Words
      BY <2>2, <2>5 DEF GoesOn, Piece
    <2>7. Joins(q.kind) = "=" /\ Opens(q.kind) = Semicolon
      BY <2>6 DEF Joins, Opens
    <2>8. Starts(s, Semicolon)
      BY <2>2, <2>4, <2>5, <2>7
    <2>9. HasParameter(Parameter)
      BY <2>2, <2>5, <2>6, <2>7, <2>8 DEF HasParameter
    <2>. QED  BY <2>3, <2>8, <2>9
  <1>. QED  BY <1>3, <1>4 DEF ParseFails

(* What ParseMediaType returns has a map of parameters, Json has none.       *)
LEMMA JsonIsNotMade == NoType # Json /\ \A m : m.made => m # Json
  <1>1. Json.made = FALSE /\ NoType.type # Json.type
    BY DEF Json, NoType
  <1>. QED  BY <1>1, Zenon

(* Every step keeps what is known of the body.                               *)
LEMMA FormStep ==
  ASSUME TypeOK, ContentTypeOK, FormInv, [Next]_vars
  PROVE  FormInv'
  <1>0. request' = request
    BY RequestKept
  <1>. SUFFICES ASSUME request.route # "logout" PROVE FormInv'
    BY <1>0 DEF FormInv
  <1>i. /\ caller # "logout" /\ media # Json
        /\ pc \in {"handler", "bodyParameters", "read"} =>
             reader = "none" /\ (mapper = "none" <=> request.route = "login")
        /\ pc \in ParserLabels \cup {"mapping"} =>
             mapper = "none" /\ (reader = "none" <=> request.route = "addItem")
        /\ pc = "done" => reader # "none"
        /\ reader # "none" => Verdict
        /\ pc = "read" => request.contentType.meaning # Malformed
        /\ pc = "bodyParameters" => /\ request.contentType.present
                                    /\ \E ps, cut : TypeReadSoFar(ps, cut)
    BY DEF FormInv
  <1>v. UNCHANGED reader => (reader # "none" => Verdict)'
    BY <1>0, <1>i DEF Verdict
  <1>1. CASE Parsing
    <2>1. /\ pc \in ParserLabels /\ pc' \in ParserLabels
          /\ UNCHANGED <<request, caller, mapper, media, reader>>
      BY <1>1 DEF Parsing, ParserLabels, Fails, ConsumeTypeFails, ConsumeParameterFails,
         Fail, ConsumeType, ConsumeParameter, ConsumeWeight, ConsumeExtension, Weigh,
         EndOfHeader, Select, EndOfSelection, choice, answer
    <2>. QED  BY <1>i, <1>v, <2>1 DEF FormInv, ParserLabels
  <1>2. CASE GetMapper
    <2>1. /\ pc = "mapping" /\ pc' = "range" /\ caller' = "mapper"
          /\ UNCHANGED <<request, mapper, media, reader>>
      BY <1>2 DEF GetMapper, Negotiate, answer
    <2>. QED  BY <1>i, <1>v, <2>1 DEF FormInv, ParserLabels
  <1>3. CASE MatchByAcceptHeader
    <2>1. /\ pc = "chosen" /\ mapper' \in {"html", "json"}
          /\ pc' = IF request.route = "addItem" THEN "handler" ELSE "done"
          /\ UNCHANGED <<request, caller, media, reader>>
      BY <1>3 DEF MatchByAcceptHeader, choice
    <2>2. request.route \in {"addItem", "login"}
      BY HeaderTypes
    <2>. QED  BY <1>i, <1>v, <2>1, <2>2 DEF FormInv, ParserLabels
  <1>4. CASE LogoutWithoutAccept \/ Logout \/ LogoutStatus
    BY <1>4, <1>i DEF LogoutWithoutAccept, Logout, LogoutStatus
  <1>5. CASE WithoutContentType
    <2>1. /\ pc = "handler" /\ pc' = "read" /\ ~request.contentType.present
          /\ UNCHANGED <<request, caller, mapper, media, reader>>
      BY <1>5 DEF WithoutContentType, choice, answer
    <2>2. request.contentType.meaning # Malformed
      BY <2>1 DEF ContentTypeOK, ContentTypeMeans
    <2>. QED  BY <1>i, <1>v, <2>1, <2>2 DEF FormInv, ParserLabels
  <1>6. CASE ParseType
    <2>1. /\ pc = "handler" /\ pc' = "bodyParameters" /\ request.contentType.present
          /\ UNCHANGED <<request, caller, mapper, reader>>
      BY <1>6 DEF ParseType, choice
    <2>2. (\E ps, cut : TypeReadSoFar(ps, cut))'
      BY <1>0, <1>6, BodyTypeIsRead
    <2>3. media' # Json
      <3>1. media'.made
        BY <2>2 DEF TypeReadSoFar
      <3>. QED  BY <3>1, JsonIsNotMade, Zenon
    <2>4. Json' = Json
      BY DEF Json
    <2>. QED  BY <1>i, <1>v, <2>1, <2>2, <2>3, <2>4 DEF FormInv, ParserLabels
  <1>7. CASE ParseParameter
    <2>1. /\ pc = "bodyParameters" /\ pc' = "bodyParameters"
          /\ UNCHANGED <<request, caller, mapper, reader>>
      BY <1>7 DEF ParseParameter, choice
    <2>2. (\E ps, cut : TypeReadSoFar(ps, cut))'
      BY <1>0, <1>7, <1>i, <2>1, BodyParameterIsRead
    <2>3. media' # Json
      <3>1. media'.made
        BY <2>2 DEF TypeReadSoFar
      <3>. QED  BY <3>1, JsonIsNotMade, Zenon
    <2>. QED  BY <1>i, <1>v, <2>1, <2>2, <2>3 DEF FormInv, ParserLabels
  <1>8. CASE ParseFails
    <2>1. /\ pc \in {"handler", "bodyParameters"} /\ reader' = "error"
          /\ pc' = IF mapper = "none" THEN "mapping" ELSE "done"
          /\ UNCHANGED <<request, caller, mapper, media>>
      BY <1>8 DEF ParseFails, Return, choice
    <2>2. request.contentType.meaning = Malformed
      BY <1>8, <1>i, OnlyMalformedTypeFails
    <2>3. Verdict'
      BY <2>1, <2>2 DEF Verdict
    <2>4. request.route \in {"addItem", "login"}
      BY HeaderTypes
    <2>. QED  BY <1>i, <2>1, <2>3, <2>4 DEF FormInv, ParserLabels
  <1>9. CASE EndOfContentType
    <2>1. /\ pc = "bodyParameters" /\ pc' = "read" /\ s = <<>>
          /\ UNCHANGED <<request, caller, mapper, media, reader>>
      BY <1>9 DEF EndOfContentType, choice, answer
    <2>2. request.contentType.meaning # Malformed
      BY <1>i, <2>1, BodyTypeIsWhole
    <2>. QED  BY <1>i, <1>v, <2>1, <2>2 DEF FormInv, ParserLabels
  <1>10. CASE ReadBody
    <2>1. /\ pc = "read" /\ reader' = IF Equal(Json, media) THEN "json" ELSE "form"
          /\ pc' = IF mapper = "none" THEN "mapping" ELSE "done"
          /\ UNCHANGED <<request, caller, mapper, media>>
      BY <1>10 DEF ReadBody, Return, choice
    <2>2. reader' = "form"
      BY <1>i, <2>1 DEF Equal
    <2>3. Verdict'
      BY <1>i, <2>1, <2>2 DEF Verdict
    <2>4. request.route \in {"addItem", "login"}
      BY HeaderTypes
    <2>. QED  BY <1>i, <2>1, <2>2, <2>3, <2>4 DEF FormInv, ParserLabels
  <1>11. CASE UNCHANGED vars
    <2>1. UNCHANGED <<request, pc, s, caller, mapper, media, reader>>
      BY <1>11 DEF vars, choice, answer
    <2>2. (\E ps, cut : TypeReadSoFar(ps, cut)) => (\E ps, cut : TypeReadSoFar(ps, cut))'
      BY <2>1 DEF TypeReadSoFar
    <2>. QED  BY <1>i, <1>v, <2>1, <2>2 DEF FormInv
  <1>. QED  BY <1>1, <1>2, <1>3, <1>4, <1>5, <1>6, <1>7, <1>8, <1>9, <1>10, <1>11
            DEF Next, Step, Terminating, Parsing, Fails

(* Every Content-Type has a meaning too.                                     *)
LEMMA EveryTypeMeans ==
  ASSUME NEW t, Tokenised(t), Malformed \notin MediaType
  PROVE  \E m \in MediaType \cup {Malformed} :
            ContentTypeMeans([present |-> TRUE, tokens |-> t, meaning |-> m])
  <1>1. CASE \E m \in MediaType : TypeWritten(t, m)
    <2>1. PICK m \in MediaType : TypeWritten(t, m)
      BY <1>1
    <2>2. ContentTypeMeans([present |-> TRUE, tokens |-> t, meaning |-> m])
      BY <2>1 DEF ContentTypeMeans
    <2>. QED  BY <2>2
  <1>2. CASE \A m \in MediaType : ~TypeWritten(t, m)
    <2>1. ContentTypeMeans([present |-> TRUE, tokens |-> t, meaning |-> Malformed])
      BY <1>2 DEF ContentTypeMeans
    <2>. QED  BY <2>1
  <1>. QED  BY <1>1, <1>2

(* Where the meaning of every Content-Type is the one that RFC 7231 gives it, *)
(* a body whose type breaks the grammar is turned down and no other is, and  *)
(* the forms of the HTML frontend are read as forms, however many parameters *)
(* the type comes with.                                                      *)
THEOREM FormsAreRead ==
  ASSUME ContentTypesMean
  PROVE  Spec => []FormsArrive
  <1>1. Init => ContentTypeOK /\ FormInv
    <2>1. SUFFICES ASSUME Init PROVE ContentTypeOK /\ FormInv
      OBVIOUS
    <2>2. ContentTypeOK
      BY <2>1 DEF Init, ContentTypeOK, ContentTypesMean
    <2>3. request.route \in {"addItem", "login", "logout"}
      BY <2>1, InitIInv, HeaderTypes DEF IInv
    <2>4. FormInv
      BY <2>1, <2>3, JsonIsNotMade DEF Init, FormInv, ParserLabels
    <2>. QED  BY <2>2, <2>4
  <1>2. ContentTypeOK /\ [Next]_vars => ContentTypeOK'
    BY RequestKept DEF ContentTypeOK
  <1>3. IInv /\ ContentTypeOK /\ FormInv /\ [Next]_vars => FormInv'
    BY FormStep DEF IInv
  <1>4. FormInv => FormsArrive
    BY DEF FormInv, Verdict, FormsArrive
  <1>. QED  BY <1>1, <1>2, <1>3, <1>4, Invariance, PTL DEF Spec
=============================================================================
