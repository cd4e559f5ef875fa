------------------------------ MODULE MCDcache ------------------------------
(* Instance of Dcache for TLC: three lines compete for the two ways of set *)
(* 0, one uses set 1, one word is not cacheable.                           *)
EXTENDS Dcache

Word(set, tag, word) == [set |-> set, tag |-> tag, word |-> word]
Watched  == Word(0, 0, 1)       \* the word whose contents vary
Uncached == Word(0, 3, 0)

MCAddrs == [set : {0}, tag : {0, 1, 2}, word : {0, 1}] \cup [set : {1}, tag : {0}, word : {0, 1}]
           \cup {Uncached}

(* A word holds its own address, so that a mix-up is visible; the watched  *)
(* one has two versions.                                                   *)
Content(a, version) == [of |-> a, version |-> version]
MCInitial  == [a \in MCAddrs |-> Content(a, 0)]
MCContents == {Content(a, 0) : a \in MCAddrs} \cup {Content(Watched, 1)}

MCBursts == {<<Word(s, t, 0), Word(s, t, 1)>> : s \in {0, 1}, t \in {0, 1, 2, None}}
            \cup {<<Uncached>>}

Load(a)     == [kind |-> "ld", addr |-> a, val |-> None]
Store(a, v) == [kind |-> "st", addr |-> a, val |-> Content(a, v)]
Op(kind, a) == [kind |-> kind, addr |-> a, val |-> None]

MCRequests ==
    {Load(Watched), Store(Watched, 1), Op("wb", Watched), Op("flush", Watched),
     Store(Word(0, 1, 0), 0), Load(Word(0, 2, 0)),
     Store(Word(1, 0, 0), 0), Load(Uncached), Store(Uncached, 0), Op("wb", Uncached)}

(* With invalidates, which drop what was stored. *)
MCInvalidations ==
    {Store(Watched, 0), Load(Word(1, 0, 0)), Op("inval", Watched), Op("inval", Word(1, 0, 0))}

MCIdleAddrs == {Watched, Word(1, 0, 0), Uncached}

MCFailAddrs == {Word(0, 2, 0), Uncached}
=============================================================================
