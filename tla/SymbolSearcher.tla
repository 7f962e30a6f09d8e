--------------------------- MODULE SymbolSearcher ---------------------------
(***************************************************************************)
(* The symbolsearcher the VDSO cache builds over the dynamic symbols       *)
(* (src/cmd/eh-frame/main.go, lines 238 and 264).  Its package is not in   *)
(* this tree, so it is written from spec.md, section 4.1: entries          *)
(* (start, size, name) sorted by address, an address searched for the      *)
(* entry whose [start, start+size) holds it, in O(log n).                  *)
(***************************************************************************)
EXTENDS Integers, Sequences

ByStart(s1, s2) == s1.start <= s2.start

Encloses(sym, a) == sym.start <= a /\ a < sym.start + sym.size

(* Binary search for the last entry starting at or below a in t[lo..hi];  *)
(* lo - 1 when there is none.                                             *)
RECURSIVE LastAtOrBelow(_, _, _, _)
LastAtOrBelow(t, a, lo, hi) ==
    IF lo > hi THEN lo - 1
    ELSE LET mid == (lo + hi) \div 2 IN
         IF t[mid].start <= a THEN LastAtOrBelow(t, a, mid + 1, hi)
                              ELSE LastAtOrBelow(t, a, lo, mid - 1)

(* Search: the name of the symbol holding a, or NotFound.                  *)
Search(t, a) ==
    LET i == LastAtOrBelow(t, a, 1, Len(t)) IN
    IF i >= 1 /\ Encloses(t[i], a) THEN t[i].name ELSE "NotFound"

=============================================================================
