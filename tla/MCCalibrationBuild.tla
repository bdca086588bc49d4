------------------------- MODULE MCCalibrationBuild -------------------------
(* Small parents, two domains and two command lines for CalibrationBuild. *)
EXTENDS CalibrationBuild

CONSTANTS wa, wb, wc, wd, we
MCWord == {wa, wb, wc, wd, we}

MCRole == [user |-> "user", human |-> "user", system |-> "system", gpt |-> "assistant",
           assistant |-> "assistant", tool |-> "tool"]

Extracts(domain, extractor, merge) ==
    [domain |-> domain, extractor |-> extractor, merge |-> merge]
MCSchema == [docs  |-> Extracts("general", "document", FALSE),
             chats |-> Extracts("general", "messages", TRUE),
             tools |-> Extracts("code", "tagged_tool_chat", FALSE),
             pairs |-> Extracts("code", "prompt_response", FALSE)]

Doc(text) == [source |-> "docs", row |-> [text |-> text]]
Say(role, text) == [role |-> role, content |-> text]
Chat(system, messages) ==
    [source |-> "chats", row |-> [system |-> system, messages |-> messages]]
Tool(system, messages) ==
    [source |-> "tools", row |-> [system |-> system, messages |-> messages]]
Pair(prompts, response) ==
    [source |-> "pairs", row |-> [system |-> <<>>, prompts |-> prompts, responses |-> <<response>>]]

\* Parent 1: a document of two segments, one of which another document equals
\* once its special token is gone; a conversation whose last message is
\* nothing but one; two system messages; rows without text.
\* Parent 2: a line separator within a text, an overlong unit, a tool chat.
MCRows ==
    <<  <<Doc(<<wa, wb, Para, wc, wd>>), Doc(<<wc, Special, wd>>), Doc(<<Para>>),
          Chat(<<(<<we>>)>>, <<Say("system", <<wd>>), Say("human", <<wc, wa>>), Say("gpt", <<Line>>)>>),
          Chat(<<>>, <<Say("user", <<we, wc>>), Say("assistant", <<Special>>)>>),
          Pair(<<(<<wa, we>>), <<>>>>, <<wb>>), Pair(<<>>, <<wb>>),
          Pair(<<(<<wd, wb>>)>>, <<wc>>)>>,
        <<Doc(<<wa, Line, wc>>), Doc(<<wb, wc, wd, we, wa>>), Doc(<<wd>>),
          Tool(<<(<<wb>>)>>, <<Say("user", <<wa, wb>>), Say("tool", <<wc, wb>>)>>),
          Pair(<<(<<wa, wa>>)>>, <<we>>)>>  >>

\* Every feature has a digest of its own, in no order of the words.
Symbols == <<wa, wb, wc, wd, we, Special, "user", "system", "assistant", "tool">>
MCHash(feature) ==
    FoldLeft(LAMBDA digest, s : (digest * 37 + 11 * CHOOSE i \in DOMAIN Symbols : Symbols[i] = s) % 211,
             0, feature)

MCDomains == <<"code", "general">>

Line1(force, holdout, target) == [force |-> force, holdout |-> holdout, target |-> target]
MCArgs == {Line1(FALSE, 2, 3), Line1(TRUE, 2, 3), Line1(FALSE, 4, 5)}
\* The order of the first n ranks of a list, and n of a longer corpus as they are.
Order(ranks) ==
    [n \in 0..12 |->
        IF n > Len(ranks) THEN [i \in 1..n |-> i]
        ELSE [i \in 1..n |-> CHOOSE k \in 1..n :
                 Cardinality({j \in 1..n : ranks[j] < ranks[k]}) = i - 1]]
MCShuffles == {[first |-> Order(<<1, 2, 3, 4, 5>>), second |-> Order(<<5, 4, 3, 2, 1>>)],
               [first |-> Order(<<3, 1, 5, 2, 4>>), second |-> Order(<<1, 2, 3, 4, 5>>)]}
\* The last record of either domain of the second parent.
MCStrays == {Last(InDomain(Adapted[2], d)) : d \in DomainSet}
=============================================================================
