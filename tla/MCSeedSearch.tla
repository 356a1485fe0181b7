---------------------------- MODULE MCSeedSearch ----------------------------
(* Instances of SeedSearch for TLC: a wordlist of three words, mnemonics of *)
(* three, a checksum that about half of them pass.  0 and -1 are no words.  *)
EXTENDS SeedSearch

Words3 == 1..3

Phrases(n, T) == [1..n -> T]

Checksum == {f \in [1..3 -> Words3] : (f[1] + f[2] + f[3]) % 2 = 0}

\* Two words are no mnemonic; some of them raise.
TooLarge == {f \in [1..2 -> Words3] : f[1] = 3}

OwnedPhrases == {f \in Checksum : f[3] # 2}

LooksLike == [t \in -1..3 |->
    CASE t = 0 -> {1, 3} [] t = 1 -> {1, 2} [] t = -1 -> {} [] t \in 2..3 -> {t}]

MissingJobs ==
    [engine : {"missing"}, target : BOOLEAN, max_returned : {0, 2},
     phrase : Phrases(3, {Word(1), Word(0), UNKNOWN_TOKEN, Pattern({2, 3}), Pattern({})})
        \cup Phrases(2, {Word(1), Word(3), UNKNOWN_TOKEN})]

OrderJobs ==
    [engine : {"order"}, target : BOOLEAN,
     phrase : Phrases(3, {Word(1), Word(0), UNKNOWN_TOKEN}),
     pool : UNION {[1..n -> 0..3] : n \in 0..3}]

TypoJobs ==
    [engine : {"typos"}, target : BOOLEAN, max_typo_words : 0..3,
     words : Phrases(3, -1..2)]

ExtraJobs ==
    [engine : {"extra"}, target : BOOLEAN,
     words : Phrases(3, {1, 2}) \cup Phrases(4, {1, 2, 3})]

AllJobs == MissingJobs \cup OrderJobs \cup TypoJobs \cup ExtraJobs
=============================================================================
