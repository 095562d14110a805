----------------------------- MODULE MCBirdFeed -----------------------------
EXTENDS BirdFeed
OneFamily == [f \in Flows |-> "ip4"]
=============================================================================
