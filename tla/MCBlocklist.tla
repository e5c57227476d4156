---------------------------- MODULE MCBlocklist ----------------------------
(* One owner is blocked, or is not; the API urls of two of his             *)
(* repositories, as the scraper stores them, spell his name in two ways.   *)
EXTENDS Blocklist

Api(owner, name) ==
    [scheme |-> TRUE, slash |-> TRUE, parts |-> <<"api.github.com", "repos", owner, name>>]
Owner(name) == [scheme |-> FALSE, slash |-> FALSE, parts |-> <<name>>]

Parts == {"api.github.com", "repos", "Franken", "franken", "huge", "small"}
MCLower == [p \in Parts |-> IF p = "Franken" THEN "franken" ELSE p]
MCBare == [p \in Parts |-> p]

MCEntries == {Owner("Franken")}
MCUrls == {Api("Franken", "small"), Api("franken", "huge")}
=============================================================================
