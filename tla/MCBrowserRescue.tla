-------------------------- MODULE MCBrowserRescue ---------------------------
(* An instance of BrowserRescue: one token with two standards.             *)
EXTENDS BrowserRescue, TLC

MCOffers == ("token" :> {"ERC3009", "DAI"})
MCStart  == ("token" :> 1)
=============================================================================
