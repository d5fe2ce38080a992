------------------------- MODULE MCBrokerInformers --------------------------
(* The instances of BrokerInformers that TLC checks (Informers*.cfg).      *)
EXTENDS BrokerInformers

=============================================================================
