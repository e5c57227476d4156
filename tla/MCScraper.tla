----------------------------- MODULE MCScraper -----------------------------
(* Two windows.  The first has two pages of results and begins with one    *)
(* whose conversion raises; the second has a result without a license.     *)
EXTENDS Scraper

CONSTANTS s1, s2, r1, r2, r3, bare, null

MCResults == <<  <<null, r1, r2>>, <<bare, r3>>  >>
=============================================================================
