---------------------------- MODULE PostTextProofs ----------------------------
(***************************************************************************)
(* Proofs about PostText, for texts of any length, any patterns and any     *)
(* signatures of one line.                                                  *)
(***************************************************************************)
EXTENDS PostText, SequenceTheorems, WellFoundedInduction, TLAPS

----------------------------------------------------------------------------
(* RemoveSignature *)

\* A set of natural numbers has a smallest element.
LEMMA Smallest ==
  ASSUME NEW S \in SUBSET Nat, S # {}
  PROVE  \E n \in S : \A m \in S : n <= m
<1> DEFINE R == OpToRel(<, Nat)
<1>1. IsWellFoundedOn(R, Nat)
  BY NatLessThanWellFounded
<1>2. \A x, y \in Nat : y < x => <<y, x>> \in R
  BY DEF OpToRel
<1> HIDE DEF R
<1>3. PICK x \in S : \A y \in S : <<y, x>> \notin R
  BY <1>1, WFMin
<1>4. \A y \in S : ~(y < x)
  BY <1>2, <1>3
<1> QED
  BY <1>4

\* The scan stops at the last line of the body.
LEMMA CutoffFinds ==
  ASSUME NEW t \in Seq(Lines)
  PROVE  /\ Cutoff(t) \in 0..Len(t)
         /\ Cutoff(t) > 0 => t[Cutoff(t)] \notin Footers \cup {Blank}
         /\ \A m \in Cutoff(t) + 1 .. Len(t) : t[m] \in Footers \cup {Blank}
<1> DEFINE body == {n \in 1..Len(t) : t[n] \notin Footers \cup {Blank}}
<1>1. CASE body = {}
  BY <1>1 DEF Cutoff
<1>2. CASE body # {}
  <2> DEFINE below == {Len(t) - n : n \in body}
  <2>1. below \in SUBSET Nat /\ below # {}
    BY <1>2
  <2>2. PICK d \in below : \A e \in below : d <= e
    BY <2>1, Smallest
  <2>3. PICK k \in body : d = Len(t) - k
    BY <2>2
  <2>4. \A m \in body : m <= k
    <3> SUFFICES ASSUME NEW m \in body
                 PROVE  m <= k
      OBVIOUS
    <3>1. Len(t) - m \in below
      OBVIOUS
    <3>2. Len(t) - k <= Len(t) - m
      BY <2>2, <2>3, <3>1
    <3> QED
      BY <3>2
  <2>5. /\ Cutoff(t) = CHOOSE n \in body : \A m \in body : m <= n
        /\ Cutoff(t) \in body
        /\ \A m \in body : m <= Cutoff(t)
    BY <1>2, <2>4 DEF Cutoff
  <2>6. Len(t) \in Nat
    OBVIOUS
  <2>7. ASSUME NEW m \in Cutoff(t) + 1 .. Len(t)
        PROVE  t[m] \in Footers \cup {Blank}
    <3>1. m \in 1..Len(t) /\ ~(m <= Cutoff(t))
      BY <2>5, <2>6
    <3>2. m \notin body
      BY <2>5, <3>1
    <3> QED
      BY <3>1, <3>2
  <2>8. Cutoff(t) \in 0..Len(t) /\ t[Cutoff(t)] \notin Footers \cup {Blank}
    BY <2>5, <2>6
  <2> QED
    BY <2>7, <2>8
<1> QED
  BY <1>1, <1>2

\* What is left of a text is a prefix of it that ends with a line of the body.
LEMMA RemoveKeeps ==
  ASSUME NEW t \in Seq(Lines)
  PROVE  LET r == RemoveSignature(t)
         IN  /\ r \in Seq(Lines)
             /\ Len(r) = Cutoff(t)
             /\ \A n \in 1..Len(r) : r[n] = t[n]
             /\ r # <<>> => r[Len(r)] \notin Footers \cup {Blank}
BY CutoffFinds DEF RemoveSignature

\* A text that ends with a line of the body is left alone.
LEMMA RemoveLeaves ==
  ASSUME NEW t \in Seq(Lines), t # <<>> => t[Len(t)] \notin Footers \cup {Blank}
  PROVE  RemoveSignature(t) = t
<1>1. Cutoff(t) = Len(t)
  <2>1. CASE t = <<>>
    <3>1. Len(t) = 0 /\ Cutoff(t) \in 0..Len(t)
      BY <2>1, CutoffFinds
    <3> QED
      BY <3>1
  <2>2. CASE t # <<>>
    <3>1. Len(t) \in Nat /\ Len(t) > 0 /\ Cutoff(t) \in 0..Len(t)
      BY <2>2, CutoffFinds
    <3>2. ASSUME Cutoff(t) < Len(t)
          PROVE  FALSE
      <4>1. Len(t) \in Cutoff(t) + 1 .. Len(t)
        BY <3>1, <3>2
      <4> QED
        BY <2>2, <4>1, CutoffFinds
    <3> QED
      BY <3>1, <3>2
  <2> QED
    BY <2>1, <2>2
<1> QED
  BY <1>1 DEF RemoveSignature

\* Lines of the tail that are added to such a text are removed again.
LEMMA RemoveUndoes ==
  ASSUME NEW t \in Seq(Lines), t # <<>> => t[Len(t)] \notin Footers \cup {Blank},
         NEW u \in Seq(Lines), \A n \in 1..Len(u) : u[n] \in Footers \cup {Blank}
  PROVE  RemoveSignature(t \o u) = t
<1> DEFINE w == t \o u
<1>1. /\ w \in Seq(Lines) /\ Len(w) = Len(t) + Len(u)
      /\ \A n \in 1..Len(t) : w[n] = t[n]
      /\ \A n \in Len(t) + 1 .. Len(w) : w[n] \in Footers \cup {Blank}
  OBVIOUS
<1> HIDE DEF w
<1>2. Cutoff(w) = Len(t)
  <2>1. /\ Cutoff(w) \in 0..Len(w)
        /\ Cutoff(w) > 0 => w[Cutoff(w)] \notin Footers \cup {Blank}
        /\ \A m \in Cutoff(w) + 1 .. Len(w) : w[m] \in Footers \cup {Blank}
    BY <1>1, CutoffFinds
  <2>2. ASSUME Cutoff(w) > Len(t)
        PROVE  FALSE
    BY <1>1, <2>1, <2>2
  <2>3. ASSUME Cutoff(w) < Len(t)
        PROVE  FALSE
    <3>1. Len(t) \in Cutoff(w) + 1 .. Len(w) /\ Len(t) \in 1..Len(t) /\ t # <<>>
      BY <1>1, <2>1, <2>3
    <3> QED
      BY <1>1, <2>1, <3>1
  <2> QED
    BY <1>1, <2>1, <2>2, <2>3
<1>3. SubSeq(w, 1, Len(t)) = t
  BY <1>1
<1> QED
  BY <1>2, <1>3 DEF RemoveSignature, w

----------------------------------------------------------------------------
(* The custom signature *)

\* A text that is empty or ends with a line of the body, as RemoveSignature
\* leaves it.
Bodies == {t \in Seq(Lines) : t # <<>> => t[Len(t)] \notin Footers \cup {Blank}}

LEMMA RemoveBody ==
  ASSUME NEW t \in Seq(Lines)
  PROVE  RemoveSignature(t) \in Bodies
BY RemoveKeeps DEF Bodies

LEMMA SigLine ==
  ASSUME NEW s \in Sigs \cup {NoSig}, s # NoSig
  PROVE  s \in Lines /\ s # Blank /\ s \in Ends[s] /\ Blank \in Lines
BY PostAssumption

\* The three shapes of a signed text.
LEMMA SignedShape ==
  ASSUME NEW b \in Bodies, NEW s \in Sigs \cup {NoSig}
  PROVE  /\ Signed(b, s) \in Seq(Lines)
         /\ s # NoSig => HasSuffix(Signed(b, s), s)
         /\ \/ Signed(b, s) = b /\ (s = NoSig \/ HasSuffix(b, s))
            \/ b = <<>> /\ s # NoSig /\ Signed(b, s) = <<s>>
            \/ b # <<>> /\ s # NoSig /\ Signed(b, s) = b \o <<Blank, s>>
<1>0. b \in Seq(Lines)
  BY DEF Bodies
<1>1. CASE s = NoSig \/ HasSuffix(b, s)
  BY <1>0, <1>1 DEF Signed
<1>2. CASE s # NoSig /\ ~HasSuffix(b, s) /\ b = <<>>
  <2>1. Signed(b, s) = <<s>>
    BY <1>2 DEF Signed
  <2>2. <<s>> \in Seq(Lines) /\ HasSuffix(<<s>>, s)
    BY <1>2, SigLine DEF HasSuffix
  <2> QED
    BY <1>2, <2>1, <2>2
<1>3. CASE s # NoSig /\ ~HasSuffix(b, s) /\ b # <<>>
  <2> DEFINE o == b \o <<Blank, s>>
  <2>1. Signed(b, s) = o
    BY <1>3 DEF Signed
  <2>2. o \in Seq(Lines) /\ Len(o) = Len(b) + 2 /\ o[Len(o)] = s /\ o # <<>>
    BY <1>0, <1>3, SigLine
  <2>3. HasSuffix(o, s)
    BY <1>3, <2>2, SigLine DEF HasSuffix
  <2> QED
    BY <1>3, <2>1, <2>2, <2>3
<1> QED
  BY <1>1, <1>2, <1>3

\* A signed text that is cleaned and signed again comes out as it was.
LEMMA SignedAgain ==
  ASSUME NEW b \in Bodies, NEW s \in Sigs \cup {NoSig}
  PROVE  Signed(RemoveSignature(Signed(b, s)), s) = Signed(b, s)
<1> DEFINE o == Signed(b, s)
<1>0. b \in Seq(Lines) /\ (b # <<>> => b[Len(b)] \notin Footers \cup {Blank})
  BY DEF Bodies
<1>1. CASE o = b
  BY <1>0, <1>1, RemoveLeaves
<1>2. CASE s # NoSig /\ s \notin Footers /\ o # b
  <2>1. o \in Seq(Lines) /\ o # <<>> /\ o[Len(o)] = s
    <3>1. CASE o = <<s>>
      BY <1>2, <3>1, SigLine
    <3>2. CASE o = b \o <<Blank, s>>
      BY <1>0, <1>2, <3>2, SigLine
    <3> QED
      BY <1>2, <3>1, <3>2, SignedShape
  <2>2. o[Len(o)] \notin Footers \cup {Blank}
    BY <1>2, <2>1, SigLine
  <2>3. RemoveSignature(o) = o
    BY <2>1, <2>2, RemoveLeaves
  <2>4. Signed(o, s) = o
    BY <1>2, SignedShape DEF Signed
  <2> QED
    BY <2>3, <2>4
<1>3. CASE s # NoSig /\ s \in Footers /\ o # b
  <2> DEFINE u == IF b = <<>> THEN <<s>> ELSE <<Blank, s>>
  <2>1. /\ u \in Seq(Lines)
        /\ \A n \in 1..Len(u) : u[n] \in Footers \cup {Blank}
    BY <1>3, SigLine
  <2>2. o = b \o u
    <3>1. \/ b = <<>> /\ o = <<s>>
          \/ b # <<>> /\ o = b \o <<Blank, s>>
      BY <1>3, SignedShape
    <3>2. <<>> \o <<s>> = <<s>>
      BY <1>3, SigLine
    <3> QED
      BY <3>1, <3>2
  <2>3. RemoveSignature(o) = b
    <3> HIDE DEF u, o
    <3> QED
      BY <1>0, <2>1, <2>2, RemoveUndoes
  <2> QED
    BY <2>3
<1>4. s = NoSig => o = b
  BY DEF Signed
<1> QED
  BY <1>1, <1>2, <1>3, <1>4

----------------------------------------------------------------------------
(* A post on its way *)

\* What the text is at each stage, and what a post is that has come back.
TextInv ==
    /\ TypeOK
    /\ stage \in {"cleaned", "skipped", "filtered"} => text = RemoveSignature(post)
    /\ stage = "filtered" => ShouldSkip(RemoveSignature(post))
    /\ stage = "signed" =>
          /\ text = Signed(RemoveSignature(post), used)
          /\ ~ShouldSkip(RemoveSignature(post))
          /\ text # <<>> \/ photo
    /\ before # Never =>
          \E b \in Bodies :
              /\ before.text = Signed(b, before.sig)
              /\ before.sig \in Sigs \cup {NoSig}
              /\ post = before.text

LEMMA TextInit ==
  ASSUME Init
  PROVE  TextInv
<1>1. post \in Seq(Lines) /\ Never \in [text : Seq(Lines), sig : Sigs \cup {NoSig, Blank}]
  BY PostAssumption DEF Init, Never
<1> QED
  BY <1>1 DEF Init, TextInv, TypeOK

LEMMA TextStep ==
  ASSUME TextInv, [Next]_vars
  PROVE  TextInv'
<1> USE DEF TextInv, TypeOK
<1>0. RemoveSignature(post) \in Bodies /\ RemoveSignature(post) \in Seq(Lines)
  BY RemoveBody, RemoveKeeps
<1>1. CASE Clean
  BY <1>0, <1>1 DEF Clean
<1>2. CASE Skip \/ Filter
  BY <1>2 DEF Skip, Filter
<1>3. CASE Sign
  <2>1. text = RemoveSignature(post) /\ text' = Signed(text, sig) /\ used' = sig
    BY <1>3 DEF Sign
  <2>2. text' \in Seq(Lines)
    BY <1>0, <2>1, SignedShape
  <2>3. text' # <<>> \/ photo
    <3>1. text # <<>> \/ photo
      BY <1>3 DEF Sign, Nothing
    <3>2. text # <<>> => Signed(text, sig) # <<>>
      <4>1. text \in Seq(Lines) /\ text \o <<Blank, sig>> # <<>>
        BY <1>0, <2>1
      <4> QED
        BY <4>1 DEF Signed
    <3> QED
      BY <2>1, <3>1, <3>2
  <2> QED
    BY <1>3, <2>1, <2>2, <2>3 DEF Sign
<1>4. CASE SetSignature
  BY <1>4 DEF SetSignature
<1>5. CASE Repost
  <2>1. /\ text = Signed(RemoveSignature(post), used)
        /\ before' = [text |-> text, sig |-> used]
        /\ post' = text /\ stage' = "queued"
        /\ text # <<>> \/ photo
        /\ UNCHANGED <<photo, text, sig, used>>
    BY <1>5 DEF Repost
  <2> QED
    BY <1>0, <2>1
<1>6. CASE UNCHANGED vars
  BY <1>6 DEF vars
<1> QED
  BY <1>1, <1>2, <1>3, <1>4, <1>5, <1>6 DEF Next

\* The text is at each stage what the stages before have made of it.
THEOREM TextCorrect == Spec => []TextInv
<1>1. Init => TextInv
  BY TextInit
<1>2. TextInv /\ [Next]_vars => TextInv'
  BY TextStep
<1> QED
  BY <1>1, <1>2, PTL DEF Spec

\* Types; and no post of which nothing is left is ever sent.
THEOREM TypeCorrect == Spec => []TypeOK
<1>1. TextInv => TypeOK
  BY DEF TextInv
<1> QED
  BY <1>1, TextCorrect, PTL

\* A post that comes back is sent as it was before, neither signed twice nor
\* without its signature.
THEOREM RepostCorrect == Spec => []RepostUnchanged
<1>1. TextInv => RepostUnchanged
  <2> SUFFICES ASSUME TextInv, stage = "signed", used = before.sig
               PROVE  text = before.text
    BY DEF RepostUnchanged
  <2>1. used \in Sigs \cup {NoSig} /\ used # Blank
    BY PostAssumption DEF TextInv, TypeOK
  <2>2. before # Never
    BY <2>1 DEF Never
  <2>3. PICK b \in Bodies : before.text = Signed(b, before.sig) /\ post = before.text
    BY <2>2 DEF TextInv
  <2>4. text = Signed(RemoveSignature(Signed(b, used)), used)
    BY <2>3 DEF TextInv
  <2> QED
    BY <2>1, <2>3, <2>4, SignedAgain
<1> QED
  BY <1>1, TextCorrect, PTL

\* A footer never decides whether a post is let through.
THEOREM FooterCorrect == Spec => []FooterDecidesNothing
<1>1. TextInv => FooterDecidesNothing
  <2> SUFFICES ASSUME TextInv, NEW n \in 0..Len(post),
                      n = 0 \/ post[n] \notin Footers \cup {Blank},
                      \A m \in n + 1 .. Len(post) : post[m] \in Footers \cup {Blank}
               PROVE  /\ stage = "filtered" => ShouldSkip(SubSeq(post, 1, n))
                      /\ stage = "signed" => ~ShouldSkip(SubSeq(post, 1, n))
    BY DEF FooterDecidesNothing
  <2>1. post \in Seq(Lines) /\ Len(post) \in Nat
    BY DEF TextInv, TypeOK
  <2>2. Cutoff(post) = n
    <3>1. /\ Cutoff(post) \in 0..Len(post)
          /\ Cutoff(post) > 0 => post[Cutoff(post)] \notin Footers \cup {Blank}
          /\ \A m \in Cutoff(post) + 1 .. Len(post) : post[m] \in Footers \cup {Blank}
      BY <2>1, CutoffFinds
    <3>2. ASSUME Cutoff(post) < n
          PROVE  FALSE
      BY <2>1, <3>1, <3>2
    <3>3. ASSUME Cutoff(post) > n
          PROVE  FALSE
      BY <2>1, <3>1, <3>3
    <3> QED
      BY <2>1, <3>1, <3>2, <3>3
  <2>3. RemoveSignature(post) = SubSeq(post, 1, n)
    BY <2>2 DEF RemoveSignature
  <2> QED
    BY <2>3 DEF TextInv
<1> QED
  BY <1>1, TextCorrect, PTL

\* What is sent is the post without the channel's footer, and then the
\* signature, once.
THEOREM SentCorrect == Spec => []SentAsSigned
<1>1. TextInv => SentAsSigned
  <2> SUFFICES ASSUME TextInv, stage = "signed"
               PROVE  /\ used # NoSig => HasSuffix(text, used)
                      /\ \/ text = <<>> \/ text[Len(text)] \notin Footers
                         \/ text[Len(text)] = used
                      /\ \E n \in 0..Len(text) :
                            /\ SubSeq(text, 1, n) = SubSeq(post, 1, n)
                            /\ SubSeq(text, n + 1, Len(text)) \in
                                  {<<>>, <<used>>, <<Blank, used>>}
    BY DEF SentAsSigned
  <2> DEFINE b == RemoveSignature(post)
  <2>1. /\ text = Signed(b, used)
        /\ used \in Sigs \cup {NoSig}
        /\ post \in Seq(Lines)
    BY DEF TextInv, TypeOK
  <2>2. /\ b \in Bodies /\ b \in Seq(Lines)
        /\ Len(b) \in 0..Len(post) /\ b = SubSeq(post, 1, Len(b))
    BY <2>1, RemoveBody, RemoveKeeps, CutoffFinds DEF RemoveSignature
  <2> HIDE DEF b
  <2>3. CASE text = b
    <3>1. SubSeq(text, 1, Len(b)) = b /\ SubSeq(text, Len(b) + 1, Len(text)) = <<>>
      BY <2>2, <2>3
    <3>2. text # <<>> => text[Len(text)] \notin Footers
      BY <2>2, <2>3 DEF Bodies
    <3>3. used # NoSig => HasSuffix(text, used)
      BY <2>1, <2>2, SignedShape
    <3>4. Len(b) \in 0..Len(text) /\ SubSeq(text, 1, Len(b)) = SubSeq(post, 1, Len(b))
      BY <2>2, <2>3, <3>1
    <3> QED
      BY <3>1, <3>2, <3>3, <3>4
  <2>4. CASE b = <<>> /\ used # NoSig /\ text = <<used>>
    <3>0. used \in Lines
      BY <2>1, <2>4, SigLine
    <3>1. text \in Seq(Lines) /\ Len(text) = 1 /\ text[1] = used
      BY ONLY <2>4, <3>0
    <3>2. SubSeq(text, 1, 0) = <<>> /\ SubSeq(post, 1, 0) = <<>>
      BY <2>1, <3>1
    <3>3. SubSeq(text, 0 + 1, Len(text)) = <<used>> /\ text[Len(text)] = used
      <4>1. SubSeq(text, 1, Len(text)) = text
        BY <3>1, SubSeqFull
      <4> QED
        BY ONLY <2>4, <3>1, <4>1
    <3>4. HasSuffix(text, used)
      BY <2>1, <2>2, <2>4, SignedShape
    <3>5. 0 \in 0..Len(text)
      BY <3>1
    <3> QED
      BY <3>2, <3>3, <3>4, <3>5
  <2>5. CASE used # NoSig /\ text = b \o <<Blank, used>>
    <3>0. <<Blank, used>> \in Seq(Lines)
      BY <2>1, <2>5, SigLine
    <3>1. Len(text) = Len(b) + 2 /\ text[Len(text)] = used /\ Len(b) \in Nat
      BY <2>2, <2>5, <3>0
    <3>2. SubSeq(text, 1, Len(b)) = b
      BY <2>2, <2>5, <3>0
    <3>3. SubSeq(text, Len(b) + 1, Len(text)) = <<Blank, used>>
      <4>1. SubSeq(b \o <<Blank, used>>, Len(b) + 1, Len(b) + 2)
               = SubSeq(<<Blank, used>>, 1, 2)
        BY <2>2, <3>0, SubSeqOfConcat2
      <4>2. SubSeq(<<Blank, used>>, 1, 2) = <<Blank, used>>
        BY <3>0, SubSeqFull
      <4> QED
        BY <2>5, <3>1, <4>1, <4>2
    <3>4. HasSuffix(text, used)
      BY <2>1, <2>2, SignedShape, <2>5
    <3>5. Len(b) \in 0..Len(text)
      BY <3>1
    <3> QED
      BY <2>2, <3>1, <3>2, <3>3, <3>4, <3>5
  <2> QED
    BY <2>1, <2>2, <2>3, <2>4, <2>5, SignedShape
<1> QED
  BY <1>1, TextCorrect, PTL
==============================================================================
