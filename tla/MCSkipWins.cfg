\* One media item, one worker, no restart.
CONSTANTS
  image = image
  post = post
  w1 = w1
  None = None
  Media = {image}
  Posts = {post}
  PostOf <- OnePost
  Videos = {}
  OldPosts = {}
  Workers = {w1}
  MaxAttempts = 2
  MaxCrashes = 0
SPECIFICATION WishSpec
PROPERTY
  SkipWins
