CONSTANTS
    Self = 2  Peer <- Hosts  Config <- Configs
SPECIFICATION FairSpec
INVARIANTS TypeOK LeaderAgrees SelfActive NoRivalLists
PROPERTIES LeadsToTheEnd LeaderKnown LeaderListedAgain
