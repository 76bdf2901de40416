SPECIFICATION FairSpec
CONSTANT NoFlit = NoFlit
PROPERTIES NocSpec Delivery
