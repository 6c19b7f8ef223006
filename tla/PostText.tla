------------------------------- MODULE PostText -------------------------------
(***************************************************************************)
(* What becomes of the text of one post: internal/filter/signature.go,      *)
(* filter.go and geo_filter.go, and the parts of process in                 *)
(* internal/telegram/userbot.go that use them and append the custom         *)
(* signature.  A post that was sent may come back from a source channel.    *)
(*                                                                         *)
(* A text is a sequence of lines.  Of a line only what the code tells apart *)
(* is kept: whether a pattern of signature.go matches it, the words of the  *)
(* filters in it, and the signatures it ends with.  A signature is one      *)
(* line: /setsig makes it so.                                              *)
(***************************************************************************)
EXTENDS Integers, Sequences

CONSTANTS
    Lines,
    Blank,              \* an empty line
    Footers,            \* lines that isSignatureLine recognizes, but Blank
    Words,              \* what the filters look for
    Says,               \* the words in a line
    Sigs,               \* custom signatures
    NoSig,              \* none
    Ends,               \* the signatures that a line ends with
    SkipPatterns,       \* the default patterns and SKIP_PATTERNS
    ExcludedRegions,    \* EXCLUDED_REGIONS, perhaps none
    NonKyivOblasts,     \* nonKyivOblastStems
    KyivPass,           \* kyivPassStems
    Posts               \* the texts that channels post

ASSUME PostAssumption ==
    /\ Blank \in Lines /\ Footers \subseteq Lines \ {Blank}
    /\ Says \in [Lines -> SUBSET Words]
    /\ Sigs \subseteq Lines \ {Blank} /\ NoSig \notin Lines
    /\ Ends \in [Lines -> SUBSET Sigs]
    /\ Ends[Blank] = {} /\ \A s \in Sigs : s \in Ends[s]
    /\ SkipPatterns \cup ExcludedRegions \cup NonKyivOblasts \cup KyivPass \subseteq Words
    /\ Posts \subseteq Seq(Lines)

VARIABLES
    post,       \* as it was queued
    photo,      \* it has one
    text,       \* process's variable
    stage,      \* "queued" | "cleaned" | "signed" (and sent) | "skipped" | "filtered"
    sig,        \* the signature that the store has for the channel
    used,       \* the one that process has read
    before      \* what was sent, and the signature used, when the post has come back

vars == <<post, photo, text, stage, sig, used, before>>

Never == [text |-> <<>>, sig |-> Blank]     \* nothing was sent before

Init ==
    /\ post \in Posts
    /\ photo \in BOOLEAN
    /\ post # <<>> \/ photo
    /\ text = post
    /\ stage = "queued"
    /\ sig \in Sigs \cup {NoSig}
    /\ used = NoSig
    /\ before = Never

----------------------------------------------------------------------------
(* signature.go *)

\* Faulty: one line is enough.
LastLineOnly(t) ==
    IF t # <<>> /\ t[Len(t)] \in Footers THEN SubSeq(t, 1, Len(t) - 1) ELSE t

\* The scan from the bottom stops at the last line that belongs to the body.
Cutoff(t) ==
    LET body == {n \in 1..Len(t) : t[n] \notin Footers \cup {Blank}}
    IN  IF body = {} THEN 0 ELSE CHOOSE n \in body : \A m \in body : m <= n

RemoveSignature(t) == SubSeq(t, 1, Cutoff(t))

----------------------------------------------------------------------------
(* The filters *)

Mentions(t, ws) == \E n \in 1..Len(t) : Says[t[n]] \cap ws # {}

\* TextFilter.ShouldSkip and GeoFilter.ShouldSkip.
ShouldSkip(t) ==
    \/ Mentions(t, SkipPatterns)
    \/ /\ ~Mentions(t, KyivPass)
       /\ Mentions(t, IF ExcludedRegions = {} THEN NonKyivOblasts ELSE ExcludedRegions)

----------------------------------------------------------------------------
(* process *)

HasSuffix(t, s) == t # <<>> /\ s \in Ends[t[Len(t)]]

\* Faulty: signed whatever the text ends with.
SignedTwice(t, s) ==
    IF s = NoSig THEN t
    ELSE IF t = <<>> THEN <<s>> ELSE t \o <<Blank, s>>

\* Faulty: a signature anywhere in the text is enough.
SignedAnywhere(t, s) ==
    IF s = NoSig \/ \E n \in 1..Len(t) : s \in Ends[t[n]] THEN t
    ELSE IF t = <<>> THEN <<s>> ELSE t \o <<Blank, s>>

Signed(t, s) ==
    IF s = NoSig \/ HasSuffix(t, s) THEN t
    ELSE IF t = <<>> THEN <<s>> ELSE t \o <<Blank, s>>

Clean ==
    /\ stage = "queued"
    /\ stage' = "cleaned"
    /\ text' = RemoveSignature(post)
    /\ UNCHANGED <<post, photo, sig, used, before>>

Nothing == text = <<>> /\ ~photo

\* Nothing is left, or there is no alert.
Skip ==
    /\ stage = "cleaned"
    /\ Nothing \/ ~ShouldSkip(text)
    /\ stage' = "skipped"
    /\ UNCHANGED <<post, photo, text, sig, used, before>>

Filter ==
    /\ stage = "cleaned"
    /\ ~Nothing /\ ShouldSkip(text)
    /\ stage' = "filtered"
    /\ UNCHANGED <<post, photo, text, sig, used, before>>

\* The signature of the channel at this moment.
Sign ==
    /\ stage = "cleaned"
    /\ ~Nothing /\ ~ShouldSkip(text)
    /\ stage' = "signed"
    /\ used' = sig
    /\ text' = Signed(text, sig)
    /\ UNCHANGED <<post, photo, sig, before>>

----------------------------------------------------------------------------
(* The surroundings *)

SetSignature ==
    /\ sig' \in Sigs \cup {NoSig}
    /\ UNCHANGED <<post, photo, text, stage, used, before>>

\* A source channel posts what was sent.  (Once is enough: the text is compared
\* with that of the round before.)
Repost ==
    /\ stage = "signed"
    /\ before = Never
    /\ before' = [text |-> text, sig |-> used]
    /\ post' = text
    /\ stage' = "queued"
    /\ UNCHANGED <<photo, text, sig, used>>

Next == Clean \/ Skip \/ Filter \/ Sign \/ SetSignature \/ Repost

Spec == Init /\ [][Next]_vars

----------------------------------------------------------------------------
(* Properties *)

\* Types; and a post that is sent, and so may come back, is not empty.
TypeOK ==
    /\ {post, text} \subseteq Seq(Lines)
    /\ photo \in BOOLEAN
    /\ post # <<>> \/ photo
    /\ stage \in {"queued", "cleaned", "signed", "skipped", "filtered"}
    /\ {sig, used} \subseteq Sigs \cup {NoSig}
    /\ before \in [text : Seq(Lines), sig : Sigs \cup {NoSig, Blank}]

\* A footer, with or without an empty line above it, decides nothing: a post that
\* would be let through (or filtered) without it is with it, too, although the
\* footer may name a region or a bank.
FooterDecidesNothing ==
    LET tail == Footers \cup {Blank}
    IN  \A n \in 0..Len(post) :
            /\ n = 0 \/ post[n] \notin tail
            /\ \A m \in n + 1 .. Len(post) : post[m] \in tail
            => /\ stage = "filtered" => ShouldSkip(SubSeq(post, 1, n))
               /\ stage = "signed" => ~ShouldSkip(SubSeq(post, 1, n))

\* What is sent is the post without the channel's footer and then the signature,
\* once; and a line that the channel wrote is not sent at the end if it is a
\* footer.
SentAsSigned ==
    stage = "signed" =>
        /\ used # NoSig => HasSuffix(text, used)
        /\ \/ text = <<>> \/ text[Len(text)] \notin Footers
           \/ text[Len(text)] = used
        /\ \E n \in 0..Len(text) :
              /\ SubSeq(text, 1, n) = SubSeq(post, 1, n)
              /\ SubSeq(text, n + 1, Len(text)) \in {<<>>, <<used>>, <<Blank, used>>}

\* A post that comes back is not signed twice, nor does it lose its signature:
\* under the same signature it is sent as it was before.
RepostUnchanged ==
    stage = "signed" /\ used = before.sig => text = before.text
==============================================================================
