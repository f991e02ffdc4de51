\* One headset is left out of a full image.
SPECIFICATION LoopSpec
CONSTANTS
  hb = hb
  h1 = h1
  h2 = h2
  Headsets = {hb, h1, h2}
  ButtonPeer = hb
  NoHeadset = NoHeadset
  MaxCount = 2
  Pages = 3
  Hold = 3
SYMMETRY HeadsetSymmetry
INVARIANTS
  TypeOK
  LoopTypeOK
  AllOrNothing
  SaveKeepsOthers
  OneRequestPerPress
  ClearSticks
  UnstoredIsShown
