SPECIFICATION FairSpec
CONSTANTS
  Chosen = {"abstract", "pnjm0", "pnbe0", "pnbe1", "pnbe2", "caerus", "pnoa", "pnaa", "minbd"}
  NoFlit = NoFlit
INVARIANTS Conservation Lossless SchedulesComplete
PROPERTIES NocSpec Delivery
