SPECIFICATION Spec
CONSTANTS
  Jobs = {j1, j2, j3, j4}
  MaxTime = 4
  DefaultLimit = 2
  MaxLimit = 2
  Asked = {0, 1, 3}
SYMMETRY JobSymmetry
INVARIANTS TypeOK ListingComplete RepeatsNeedArrivals AnnouncedPageHasRows
CHECK_DEADLOCK FALSE
