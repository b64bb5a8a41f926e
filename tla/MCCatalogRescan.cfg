SPECIFICATION FairSpec
CONSTANTS
  Containers <- MCContainers
  FilesOf <- MCFilesOf
  Archives <- MCArchives
  Key <- MCKey
  Pool = {p1}
  AtFirst <- MCAtFirst
  Seconds <- MCSeconds
  Locked = {"plain"}
  Untimed = {}
  Refused = {}
  MaxVersion <- MCMaxVersion
PROPERTY RescanIsSafe
