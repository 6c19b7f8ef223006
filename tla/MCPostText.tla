------------------------------ MODULE MCPostText ------------------------------
(* PostText with posts of up to MaxLines lines.                               *)
EXTENDS PostText

CONSTANTS MaxLines,
    news, kyiv, region, bank,       \* lines of a body
    regionCall, bankHandle,         \* footers, with a word of the filters
    plain, handle,                  \* signatures; the second is a footer, too
    credit                          \* a body line that ends with plain

MCLines == {Blank, news, kyiv, region, bank, regionCall, bankHandle, plain, handle, credit}
MCWords == {kyiv, region, bank}

MCSays ==
    [l \in MCLines |-> IF l = regionCall THEN {region}
                       ELSE IF l = bankHandle THEN {bank} ELSE {l} \cap MCWords]
MCEnds == [l \in MCLines |-> IF l = credit THEN {plain} ELSE {l} \cap {plain, handle}]

\* Telegram cuts empty lines off at both ends.
MCPosts ==
    {p \in UNION {[1..n -> MCLines] : n \in 0..MaxLines} :
        p = <<>> \/ Blank \notin {p[1], p[Len(p)]}}
==============================================================================
