CONSTANTS
  Key <- Keys
  Upload <- Uploads
  Blocks <- Lengths
  InitialLen = 1
  NoMemory = NoMemory
  Junk = Junk
  Nothing = Nothing
  Part <- Parts
  MaxParse = 4
  Decoded <- Spellings
  Faces = Faces
  NoText = NoText
  Backends = {"gridfs", "s3"}
  Path <- Paths
  MaxQuery = 3
  MaxKeys = 2
  MaxSaves = 1
  Sizes = {1, 3, 4}
  Detected <- FacesIn
  InitialFiles <- Files
  NoPicture = NoPicture
SPECIFICATION CropSpec
INVARIANT CropTypeOK
INVARIANT UsesOwnImage
INVARIANT SilentPutIsStored
INVARIANT ParsedAsMeant
INVARIANT ShownUpright
INVARIANT CropInside
INVARIANT KeepsFace
