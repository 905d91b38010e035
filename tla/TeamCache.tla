----------------------------- MODULE TeamCache -----------------------------
(***************************************************************************)
(* The cache of FotMob team documents (fl-sources/src/fotmob/cache.rs): one *)
(* entry per club with the document, the validators it came with, when it  *)
(* was last known to be current, and the formation read from a match page. *)
(* A document is its version number; an ETag or Last-Modified header names *)
(* the document it came with.                                              *)
(***************************************************************************)
EXTENDS Integers

CONSTANTS
    Docs,     \* versions of a club's document, in the order they go live
    Tagged,   \* the versions served with a validator
    PageOf,   \* the latest match page a version names
    Ttl,      \* TEAM_CACHE_TTL
    NoEntry,  \* no usable entry
    Foreign,  \* a file of another format, or a damaged one
    NoSheet,  \* no match page read yet
    NoForm    \* no formation

ASSUME TeamCacheAssumption ==
    /\ Docs \subseteq Nat \ {0} /\ Tagged \subseteq Docs
    /\ Ttl \in Nat \ {0}

NoTag == 0

TagOf(d) == IF d \in Tagged THEN d ELSE NoTag

Load(file) == IF file = Foreign THEN NoEntry ELSE file

Fresh(e, now) == e # NoEntry /\ e.at <= now /\ now - e.at < Ttl

Conditional(e) == e # NoEntry /\ e.tag # NoTag

\* The formation survives a new document; its key decides whether it is used.
Updated(e, d, now) ==
    [doc |-> d, tag |-> TagOf(d), at |-> now,
     sheet |-> IF e = NoEntry THEN NoSheet ELSE e.sheet]

Touched(e, now) == [e EXCEPT !.at = now]

\* Mutant: a formation is used whatever match page it was read from.
KnowsAnySheet(e, d) == e # NoEntry /\ e.sheet # NoSheet
KnowsSheet(e, d) == e # NoEntry /\ e.sheet # NoSheet /\ e.sheet.page = PageOf[d]

WithSheet(e, d, form) ==
    IF e = NoEntry THEN NoEntry ELSE [e EXCEPT !.sheet = [page |-> PageOf[d], form |-> form]]

\* Changed entries are written one by one, each atomically; written is the
\* set whose write succeeds.
Save(disk, entries, dirty, written) ==
    [c \in DOMAIN disk |-> IF c \in dirty \cap written /\ entries[c] # NoEntry
                           THEN entries[c] ELSE disk[c]]
=============================================================================
