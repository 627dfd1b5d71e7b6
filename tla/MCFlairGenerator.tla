-------------------------- MODULE MCFlairGenerator --------------------------
\* The instance of FlairGenerator for TLC.  Four keys: two of one account, one
\* that is no account ID, and one with a flair, whose account's featured item
\* is none.
EXTENDS FlairGenerator

MCAccountOf == << 1, 2, 1, 0 >>
MCOldFlair == << 0, 9, 0, 0 >>
MCFlairOf == << 1, 0 >>
=============================================================================
